---------------------------- MODULE Spec2Model ----------------------------
(***************************************************************************)
(* Evidence Aggregation & Retrieval Pipeline of the research assistant:    *)
(* StructuredRetrievalTool (src/app/tool/context_filter.py) and the        *)
(* reader side of the session file in ReportGeneratorTool                  *)
(* (src/app/tool/report_generator.py).                                     *)
(*                                                                         *)
(* A text is a sequence of one-character strings.  Positions and slices    *)
(* follow Python: 0-based, half-open [lo, hi).                             *)
(***************************************************************************)
EXTENDS Integers, Sequences, FiniteSets, TLC

VARIABLES seg, rr, ex, st, env, fs, run, wr, rp, scope, twin, uc

vars == <<seg, rr, ex, st, env, fs, run, wr, rp, scope, twin, uc>>

-----------------------------------------------------------------------------
(* Bounds of the model *)

\* longest text enumerated character by character
MaxLen == 5
\* largest max_chars setting tried by the Segmenter specification
MaxChars == 3
\* largest header depth setting (min_level, max_level) tried
MaxLevel == 2
\* longest list of documents handed to the Reranker specification
MaxDocs == 3
\* largest top_k tried by the Reranker specification
MaxTopK == 3
\* the relevance model's scores range over 0..MaxScore
MaxScore == 1
\* a candidate of the Evidence Extractor specification is made of at most
\* MaxPieces pieces of markdown
MaxPieces == 3
\* longest EvidenceItem list and longest text written by the Session Store
\* specification
MaxItems == 2
MaxTextLen == 2
\* a document of the Segmenter specification is also made of at most
\* MaxLines lines, headers of several depths among them
MaxLines == 3

\* the most optional parameters one call of UserContextTool.execute passes
MaxPassed == 2

-----------------------------------------------------------------------------
(* Text helpers: Python's str slicing, str.strip and the regex classes *)

Whitespace == {" ", "\n", "\t", "\r"}

IsSpace(c) == c \in Whitespace

NotNewline(c) == c # "\n"

\* the character classes of the patterns: \s, '.', and a literal character
InClass(c, cls) ==
    CASE cls = "\\s" -> IsSpace(c)
      [] cls = "." -> NotNewline(c)
      [] OTHER -> c = cls

At(t, i) == t[i + 1]

Slice(t, lo, hi) == SubSeq(t, lo + 1, hi)

SetMin(S) == CHOOSE x \in S : \A y \in S : x <= y

SetMax(S) == CHOOSE x \in S : \A y \in S : x >= y

Min2(a, b) == IF a <= b THEN a ELSE b

Max2(a, b) == IF a >= b THEN a ELSE b

\* number of consecutive characters from position p on that satisfy P
RunLen(t, p, cls) ==
    LET n == Len(t)
    IN  IF p >= n THEN 0
        ELSE CHOOSE k \in 0..(n - p) :
                /\ p + k = n \/ ~InClass(At(t, p + k), cls)
                /\ \A i \in p..(p + k - 1) : InClass(At(t, i), cls)

\* number of consecutive characters before position p that satisfy P
RunLenBack(t, p, cls) ==
    IF p <= 0 THEN 0
    ELSE CHOOSE k \in 0..p :
            /\ p - k = 0 \/ ~InClass(At(t, p - k - 1), cls)
            /\ \A i \in (p - k)..(p - 1) : InClass(At(t, i), cls)

\* text[lo:hi].strip(), as the range of the text that is left
StripRange(t, lo, hi) ==
    LET s == Slice(t, lo, hi)
        lead == RunLen(s, 0, "\\s")
    IN  IF lead = hi - lo THEN [lo |-> lo, hi |-> lo]
        ELSE [lo |-> lo + lead, hi |-> hi - RunLenBack(s, hi - lo, "\\s")]

Strip(t) ==
    LET r == StripRange(t, 0, Len(t)) IN Slice(t, r.lo, r.hi)

\* the value that stands for None, or for a key a dict does not have
Missing == "<missing>"

\* info.get(key, default), os.environ.get(key, default)
DictGet(value, default) == IF value = Missing THEN default ELSE value

\* the state of a component that a specification does not exercise
Off == [op |-> "off"]

RECURSIVE Concat(_)
Concat(ss) == IF ss = <<>> THEN <<>> ELSE Head(ss) \o Concat(Tail(ss))

-----------------------------------------------------------------------------
(* header_re = ^(#{1,6})\s+(.+?)\s*$ with re.MULTILINE *)

\* the {1,6} of the header pattern
MaxHeaderDepth == 6

LineStart(t, p) == p = 0 \/ At(t, p - 1) = "\n"

\* where the title (.+?) can start after \s+ has given characters back:
\* a character that exists and is not a newline, reached over whitespace only
TitleStarts(t, p) ==
    LET h == RunLen(t, p, "#")
        w == RunLen(t, p + h, "\\s")
    IN  {q \in (p + h + 1)..(p + h + w) : q < Len(t) /\ NotNewline(At(t, q))}

HasHeaderAt(t, p) ==
    /\ p < Len(t)
    /\ LineStart(t, p)
    /\ RunLen(t, p, "#") \in 1..MaxHeaderDepth
    /\ TitleStarts(t, p) # {}

\* \s*$ at position r: the whitespace run reaches the end of the text or
\* holds a newline; greedy \s* stops before the last newline of the run
TailEnds(t, r) ==
    LET v == RunLen(t, r, "\\s")
    IN  IF r + v = Len(t) THEN {Len(t)}
        ELSE {i \in r..(r + v - 1) : At(t, i) = "\n"}

HeaderMatch(t, p) ==
    LET h == RunLen(t, p, "#")
        q == SetMax(TitleStarts(t, p))
        line == RunLen(t, q, ".")
        r == SetMin({x \in (q + 1)..(q + line) : TailEnds(t, x) # {}})
    IN  [start |-> p, level |-> h, end |-> SetMax(TailEnds(t, r))]

\* header_re.finditer(content): leftmost matches, each search resuming at
\* the end of the previous match
RECURSIVE FindIter(_, _)
FindIter(t, pos) ==
    LET starts == {p \in pos..(Len(t) - 1) : HasHeaderAt(t, p)}
    IN  IF starts = {} THEN <<>>
        ELSE LET m == HeaderMatch(t, SetMin(starts))
             IN  <<m>> \o FindIter(t, m.end)

-----------------------------------------------------------------------------
(* _chunk_text: a block is a range of the text with the window it was       *)
(* trimmed from: [lo, hi) is the returned text, [wlo, whi) the window       *)

Block(w_lo, w_hi, r) == [lo |-> r.lo, hi |-> r.hi, wlo |-> w_lo, whi |-> w_hi]

\* a window that goes back one character more than the overlap
NextStartFurtherBack(end, overlap) == Max2(0, end - overlap - 1)

\* a window that starts where the previous one ended: no shared context
NextStartNoOverlap(end, overlap) == end

\* start = max(0, end - overlap)
NextStart(end, overlap) == Max2(0, end - overlap)

\* the while loop over the trimmed text [a, b), start relative to a
RECURSIVE ChunkLoop(_, _, _, _, _, _)
ChunkLoop(t, a, b, start, max_chars, overlap) ==
    IF start >= b - a THEN <<>>
    ELSE LET end == Min2(b - a, start + max_chars)
             chunk == StripRange(t, a + start, a + end)
             out == IF chunk.hi > chunk.lo
                    THEN <<Block(a + start, a + end, chunk)>> ELSE <<>>
         IN  IF end = b - a THEN out
             ELSE out \o ChunkLoop(t, a, b, NextStart(end, overlap),
                                   max_chars, overlap)

\* _chunk_text(text[lo:hi], max_chars, overlap)
ChunkText(t, lo, hi, max_chars, overlap) ==
    LET s == StripRange(t, lo, hi)
    IN  IF s.hi - s.lo <= max_chars
        THEN IF s.hi > s.lo THEN <<Block(lo, hi, s)>> ELSE <<>>
        ELSE ChunkLoop(t, s.lo, s.hi, 0, max_chars, overlap)

-----------------------------------------------------------------------------
(* _split_markdown_by_headers *)

\* only headers of the topmost level are split points
InLevelsTopOnly(m, min_level, max_level) == m.level = min_level

InLevels(m, min_level, max_level) ==
    min_level <= m.level /\ m.level <= max_level

\* a block that runs from its header to the end of the document
FilteredBlockToEnd(t, ms, i, min_level, max_level) ==
    Block(ms[i].start, Len(t), StripRange(t, ms[i].start, Len(t)))

\* the block of match i when only in-range headers are split points
FilteredBlock(t, ms, i, min_level, max_level) ==
    LET later == {j \in (i + 1)..Len(ms) : InLevels(ms[j], min_level, max_level)}
        end == IF later = {} THEN Len(t) ELSE ms[SetMin(later)].start
    IN  Block(ms[i].start, end, StripRange(t, ms[i].start, end))

\* a fallback block that runs from its header to the end of the document
AnyHeaderBlockToEnd(t, ms, i) ==
    Block(ms[i].start, Len(t), StripRange(t, ms[i].start, Len(t)))

\* the block of match i when every header is a split point
AnyHeaderBlock(t, ms, i) ==
    LET end == IF i + 1 <= Len(ms) THEN ms[i + 1].start ELSE Len(t)
    IN  Block(ms[i].start, end, StripRange(t, ms[i].start, end))

NonEmpty(b) == b.hi > b.lo

\* sections before the secondary split (lines 243-271)
HeaderSections(t, ms, min_level, max_level) ==
    LET all == [i \in 1..Len(ms) |-> [m |-> ms[i], idx |-> i]]
        inr == SelectSeq(all, LAMBDA x : InLevels(x.m, min_level, max_level))
        filtered == SelectSeq(
            [k \in 1..Len(inr) |->
                FilteredBlock(t, ms, inr[k].idx, min_level, max_level)],
            NonEmpty)
    IN  IF filtered # <<>> THEN filtered
        ELSE SelectSeq([i \in 1..Len(ms) |-> AnyHeaderBlock(t, ms, i)], NonEmpty)

\* a secondary split that meets the bound by leaving the oversized section out
SecondarySplitDropping(t, sections, max_chars, overlap) ==
    SelectSeq(sections, LAMBDA s : s.hi - s.lo <= max_chars)

\* the secondary split of the sections (lines 273-281)
RECURSIVE SecondarySplit(_, _, _, _)
SecondarySplit(t, sections, max_chars, overlap) ==
    IF sections = <<>> THEN <<>>
    ELSE LET s == Head(sections)
             part == IF s.hi - s.lo > max_chars
                     THEN ChunkText(t, s.lo, s.hi, max_chars, overlap)
                     ELSE <<s>>
         IN  part \o SecondarySplit(t, Tail(sections), max_chars, overlap)

SplitMarkdownByHeaders(t, min_level, max_level, max_chars, overlap) ==
    LET ms == FindIter(t, 0)
    IN  IF ms = <<>> THEN ChunkText(t, 0, Len(t), max_chars, overlap)
        ELSE SecondarySplit(t, HeaderSections(t, ms, min_level, max_level),
                            max_chars, overlap)

\* the texts a list of blocks stands for
Texts(t, blocks) == [k \in 1..Len(blocks) |-> Slice(t, blocks[k].lo, blocks[k].hi)]

-----------------------------------------------------------------------------
(* The Segmenter applied to every small document *)

Alphabet == {"a", "#", " ", "\n"}

RECURSIVE TextsUpTo(_)
TextsUpTo(n) ==
    IF n = 0 THEN {<<>>}
    ELSE LET shorter == TextsUpTo(n - 1)
         IN  shorter \cup {Append(s, c) : s \in {x \in shorter : Len(x) = n - 1},
                                          c \in Alphabet}

\* the lines documents are made of: headers of depth 1 to 3, text, a blank
SegLines ==
    { <<"#", " ", "a", "\n">>, <<"#", "#", " ", "a", "\n">>,
      <<"#", "#", "#", " ", "a", "\n">>, <<"a", "\n">>, <<"\n">> }

RECURSIVE LinesUpTo(_)
LinesUpTo(n) ==
    IF n = 0 THEN {<<>>}
    ELSE LET shorter == LinesUpTo(n - 1)
         IN  shorter \cup {s \o l : s \in shorter, l \in SegLines}

SegContents == TextsUpTo(MaxLen) \cup LinesUpTo(MaxLines)

SegIdle(t) ==
    [content |-> t, op |-> "none", min_level |-> 0, max_level |-> 0,
     max_chars |-> 0, overlap |-> 0, sections |-> <<>>, ranges |-> <<>>,
     blocks |-> <<>>]

SegInit ==
    /\ seg \in {SegIdle(t) : t \in SegContents}
    /\ rr = Off
    /\ ex = Off
    /\ st = Off
    /\ env = Missing
    /\ fs = <<>>
    /\ run = Off
    /\ wr = Off
    /\ rp = Off
    /\ scope = Off
    /\ twin = Off
    /\ uc = Off

\* a call of _split_markdown_by_headers(content, min_level, max_level, ...)
CallSplit ==
    /\ seg.op = "none"
    /\ \E lv1 \in 1..MaxLevel, lv2 \in 1..MaxLevel,
          mc \in 1..MaxChars, ov \in 0..(MaxChars - 1) :
          /\ lv1 <= lv2
          /\ ov < mc
          /\ LET ms == FindIter(seg.content, 0)
                 rs == SplitMarkdownByHeaders(seg.content, lv1, lv2, mc, ov)
             IN  seg' = [seg EXCEPT !.op = "split",
                           !.min_level = lv1, !.max_level = lv2,
                           !.max_chars = mc, !.overlap = ov,
                           !.sections = IF ms = <<>> THEN <<>>
                                        ELSE HeaderSections(seg.content, ms, lv1, lv2),
                           !.ranges = rs,
                           !.blocks = Texts(seg.content, rs)]

\* a call of _chunk_text(content, max_chars, overlap)
CallChunk ==
    /\ seg.op = "none"
    /\ \E mc \in 1..MaxChars, ov \in 0..(MaxChars - 1) :
          /\ ov < mc
          /\ LET rs == ChunkText(seg.content, 0, Len(seg.content), mc, ov)
             IN  seg' = [seg EXCEPT !.op = "chunk",
                           !.max_chars = mc, !.overlap = ov,
                           !.ranges = rs,
                           !.blocks = Texts(seg.content, rs)]

SegNext == (CallSplit \/ CallChunk) /\ UNCHANGED <<rr, ex, st, env, fs, run, wr, rp, scope, twin, uc>>

SpecSegmenter == SegInit /\ [][SegNext]_vars

-----------------------------------------------------------------------------
(* _chunk_text, one pass of its while loop at a time *)

ChunkStart(t, mc, ov) ==
    [op |-> "chunking", pc |-> "called", content |-> t, max_chars |-> mc,
     overlap |-> ov, text |-> [lo |-> 0, hi |-> Len(t)], start |-> 0,
     windows |-> <<>>, ranges |-> <<>>]

ChunkInit ==
    /\ seg \in {ChunkStart(t, mc, ov) :
                   t \in SegContents, mc \in 1..MaxChars, ov \in 0..(MaxChars - 1)}
    /\ seg.overlap < seg.max_chars
    /\ rr = Off
    /\ ex = Off
    /\ st = Off
    /\ env = Missing
    /\ fs = <<>>
    /\ run = Off
    /\ wr = Off
    /\ rp = Off
    /\ scope = Off
    /\ twin = Off
    /\ uc = Off

\* lines 286-291: the text is trimmed; a short one is returned at once
ChunkEnter ==
    /\ seg.pc = "called"
    /\ LET s == StripRange(seg.content, 0, Len(seg.content))
       IN  IF s.hi - s.lo <= seg.max_chars
           THEN seg' = [seg EXCEPT !.pc = "returned", !.text = s,
                          !.ranges = IF s.hi > s.lo
                                     THEN <<Block(0, Len(seg.content), s)>>
                                     ELSE <<>>]
           ELSE seg' = [seg EXCEPT !.pc = "loop", !.text = s, !.start = 0]

\* lines 292-299: the test of the while loop and one pass of its body
ChunkPass ==
    /\ seg.pc = "loop"
    /\ LET a == seg.text.lo
           n == seg.text.hi - seg.text.lo
           end == Min2(n, seg.start + seg.max_chars)
           chunk == StripRange(seg.content, a + seg.start, a + end)
       IN  IF seg.start < n
           THEN seg' = [seg EXCEPT
                    !.windows = Append(seg.windows, [lo |-> seg.start, hi |-> end]),
                    !.ranges = IF chunk.hi > chunk.lo
                               THEN Append(seg.ranges,
                                           Block(a + seg.start, a + end, chunk))
                               ELSE seg.ranges,
                    !.pc = IF end = n THEN "returned" ELSE "loop",
                    !.start = IF end = n THEN seg.start
                              ELSE NextStart(end, seg.overlap)]
           ELSE seg' = [seg EXCEPT !.pc = "returned"]

ChunkNext ==
    /\ ChunkEnter \/ ChunkPass
    /\ UNCHANGED <<rr, ex, st, env, fs, run, wr, rp, scope, twin, uc>>

\* the interpreter goes on with a call that has not returned
SpecChunk == ChunkInit /\ [][ChunkNext]_vars /\ WF_vars(ChunkNext)

-----------------------------------------------------------------------------
(* _perform_rerank *)

\* a dict comprehension that kept the list as it was: no deduplication
UniqueDocsKeepingAll(docs) == docs

\* list({d.page_content: d for d in docs}.values()): a key keeps the place
\* of its first insertion, its value is the last document assigned to it
UniqueDocs(docs) ==
    LET first == SelectSeq([i \in 1..Len(docs) |-> i],
                     LAMBDA i : \A j \in 1..(i - 1) :
                                   docs[j].page_content # docs[i].page_content)
        last(i) == SetMax({j \in 1..Len(docs) :
                              docs[j].page_content = docs[i].page_content})
    IN  [k \in 1..Len(first) |-> docs[last(first[k])]]

\* sorted(...) without reverse=True: ascending scores
RECURSIVE InsertAscending(_, _)
InsertAscending(sorted, x) ==
    IF sorted = <<>> THEN <<x>>
    ELSE IF Head(sorted).score <= x.score
         THEN <<Head(sorted)>> \o InsertAscending(Tail(sorted), x)
         ELSE <<x>> \o sorted

\* a descending sort that puts x in front of the entries of its own score
RECURSIVE InsertDescendingUnstable(_, _)
InsertDescendingUnstable(sorted, x) ==
    IF sorted = <<>> THEN <<x>>
    ELSE IF Head(sorted).score > x.score
         THEN <<Head(sorted)>> \o InsertDescendingUnstable(Tail(sorted), x)
         ELSE <<x>> \o sorted

\* one step of the stable descending sort: x goes behind every entry whose
\* score is at least its own
RECURSIVE InsertDescending(_, _)
InsertDescending(sorted, x) ==
    IF sorted = <<>> THEN <<x>>
    ELSE IF Head(sorted).score >= x.score
         THEN <<Head(sorted)>> \o InsertDescending(Tail(sorted), x)
         ELSE <<x>> \o sorted

\* sorted(zip(scores, docs), key=lambda x: x[0], reverse=True)
RECURSIVE SortedByScore(_)
SortedByScore(scored) ==
    IF scored = <<>> THEN <<>>
    ELSE InsertDescending(SortedByScore(SubSeq(scored, 1, Len(scored) - 1)),
                          scored[Len(scored)])

TextsOf(docs) == {docs[k].page_content : k \in 1..Len(docs)}

\* the pairs handed to _RERANK_MODEL.predict: none for an empty list
RerankPairs(query, docs) ==
    IF docs = <<>> THEN <<>>
    ELSE LET u == UniqueDocs(docs)
         IN  [k \in 1..Len(u) |-> <<query, u[k].page_content>>]

\* _perform_rerank(query, docs, top_k) with predict(pair) = score[pair[1]]
PerformRerank(query, docs, top_k, score) ==
    IF docs = <<>> THEN <<>>
    ELSE LET u == UniqueDocs(docs)
             scored == [k \in 1..Len(u) |->
                           [score |-> score[u[k].page_content], doc |-> u[k]]]
             ranked == SortedByScore(scored)
         IN  [k \in 1..Min2(top_k, Len(ranked)) |-> ranked[k].doc]

-----------------------------------------------------------------------------
(* The Reranker applied to every small list of sections *)

RerankTexts == {"t1", "t2", "t3"}

RerankMetas == {"m1", "m2"}

RerankDocs == [page_content : RerankTexts, metadata : RerankMetas]

RECURSIVE SeqsUpTo(_, _)
SeqsUpTo(S, n) ==
    IF n = 0 THEN {<<>>}
    ELSE LET shorter == SeqsUpTo(S, n - 1)
         IN  shorter \cup {Append(s, x) : s \in {y \in shorter : Len(y) = n - 1},
                                          x \in S}

RerankIdle(docs) ==
    [op |-> "idle", docs |-> docs, top_k |-> 0,
     score |-> [t \in RerankTexts |-> 0], pairs |-> <<>>, out |-> <<>>]

RerankInit ==
    /\ rr \in {RerankIdle(docs) : docs \in SeqsUpTo(RerankDocs, MaxDocs)}
    /\ seg = Off
    /\ ex = Off
    /\ st = Off
    /\ env = Missing
    /\ fs = <<>>
    /\ run = Off
    /\ wr = Off
    /\ rp = Off
    /\ scope = Off
    /\ twin = Off
    /\ uc = Off

\* a call of _perform_rerank("q", docs, top_k) under one relevance model
CallRerank ==
    /\ rr.op = "idle"
    /\ \E k \in 0..MaxTopK, sc \in [RerankTexts -> 0..MaxScore] :
          rr' = [rr EXCEPT !.op = "reranked", !.top_k = k, !.score = sc,
                   !.pairs = RerankPairs("q", rr.docs),
                   !.out = PerformRerank("q", rr.docs, k, sc)]
    /\ UNCHANGED <<seg, ex, st, env, fs, run, wr, rp, scope, twin, uc>>

RerankNext == CallRerank

SpecReranker == RerankInit /\ [][RerankNext]_vars

-----------------------------------------------------------------------------
(* _process_structured_content_raw *)

\* segments longer than this are split at blank lines (line 179)
SplitThreshold == 800

\* sections shorter than this after trimming are discarded (line 186)
MinSectionLen == 10

\* the {3,} of the horizontal-rule pattern
MinRuleDashes == 3

\* (?:\n|^)#{1,6}\s+|(?:\n|^)-{3,}(?:\n|$) at position p, without
\* re.MULTILINE: the position after the match, or -1
SeparatorEnd(t, p) ==
    LET n == Len(t)
        s == IF At(t, p) = "\n" THEN p + 1 ELSE p
        h == RunLen(t, s, "#")
        w == RunLen(t, s + h, "\\s")
        d == RunLen(t, s, "-")
    IN  IF ~(At(t, p) = "\n" \/ p = 0) THEN -1
        ELSE IF h \in 1..MaxHeaderDepth /\ w >= 1 THEN s + h + w
        ELSE IF d >= MinRuleDashes /\ (s + d = n \/ At(t, s + d) = "\n")
             THEN Min2(n, s + d + 1)
        ELSE -1

\* re.split(pattern, raw_content): the ranges between the matches
RECURSIVE ReSplit(_, _, _)
ReSplit(t, pos, from) ==
    LET at == {p \in pos..(Len(t) - 1) : SeparatorEnd(t, p) # -1}
    IN  IF at = {} THEN <<[lo |-> from, hi |-> Len(t)]>>
        ELSE LET p == SetMin(at)
                 e == SeparatorEnd(t, p)
             IN  <<[lo |-> from, hi |-> p]>> \o ReSplit(t, e, e)

\* seg.split("\n\n") on the range [from, hi) of t
RECURSIVE BlankSplit(_, _, _, _)
BlankSplit(t, pos, from, hi) ==
    LET at == {p \in pos..(hi - 2) : At(t, p) = "\n" /\ At(t, p + 1) = "\n"}
    IN  IF at = {} THEN <<[lo |-> from, hi |-> hi]>>
        ELSE LET p == SetMin(at)
             IN  <<[lo |-> from, hi |-> p]>> \o BlankSplit(t, p + 2, p + 2, hi)

\* every primary segment is split at blank lines, whatever its length
RECURSIVE FinalSegmentsAlwaysSplit(_, _)
FinalSegmentsAlwaysSplit(t, primary) ==
    IF primary = <<>> THEN <<>>
    ELSE BlankSplit(t, Head(primary).lo, Head(primary).lo, Head(primary).hi)
            \o FinalSegmentsAlwaysSplit(t, Tail(primary))

\* final_segments (lines 177-182)
RECURSIVE FinalSegments(_, _)
FinalSegments(t, primary) ==
    IF primary = <<>> THEN <<>>
    ELSE LET g == Head(primary)
             part == IF g.hi - g.lo > SplitThreshold
                     THEN BlankSplit(t, g.lo, g.lo, g.hi)
                     ELSE <<g>>
         IN  part \o FinalSegments(t, Tail(primary))

\* !\[.*?\]\((.*?)\) at position p of s: the places [j, k) of "](" and ")"
\* that the two lazy groups settle on, as the set of usable j
ImageAltEnds(s, p) ==
    LET stop == p + 2 + RunLen(s, p + 2, ".")
    IN  {j \in (p + 2)..(stop - 3) :
            /\ At(s, j) = "]"
            /\ At(s, j + 1) = "("
            /\ \E k \in (j + 2)..(stop - 1) : At(s, k) = ")"}

HasImageAt(s, p) ==
    /\ p + 1 < Len(s)
    /\ At(s, p) = "!"
    /\ At(s, p + 1) = "["
    /\ ImageAltEnds(s, p) # {}

\* re.findall(r"!\[.*?\]\((.*?)\)", section): the URLs, in order
RECURSIVE FindAllImages(_, _)
FindAllImages(s, pos) ==
    LET at == {p \in pos..(Len(s) - 1) : HasImageAt(s, p)}
    IN  IF at = {} THEN <<>>
        ELSE LET p == SetMin(at)
                 j == SetMin(ImageAltEnds(s, p))
                 k == SetMin({x \in (j + 2)..(Len(s) - 1) : At(s, x) = ")"})
             IN  <<Slice(s, j + 2, k)>> \o FindAllImages(s, k + 1)

SeqRange(q) == {q[i] : i \in 1..Len(q)}

\* only the URL the set's iteration gives first is kept
UniqueImagesFirstOnly(image_urls, hash_order) ==
    LET all == SelectSeq(hash_order, LAMBDA u : u \in SeqRange(image_urls))
    IN  IF all = <<>> THEN <<>> ELSE <<Head(all)>>

\* list(image_urls): every reference gives an entry
UniqueImagesKeepingAll(image_urls, hash_order) == image_urls

\* list(set(image_urls)): each URL once, in the iteration order of the set,
\* which is the order the process's string hashing gives (hash_order lists
\* the strings in that order)
UniqueImages(image_urls, hash_order) ==
    SelectSeq(hash_order, LAMBDA u : u \in SeqRange(image_urls))

\* a filter that looks at the untrimmed segment
KeptUntrimmed(t, g) == g.hi - g.lo >= MinSectionLen

\* lines 185-187: the trimmed section is kept when it has 10 characters
Kept(t, g) ==
    LET r == StripRange(t, g.lo, g.hi) IN r.hi - r.lo >= MinSectionLen

\* the items of one candidate (lines 171-199)
ItemsOf(info, hash_order) ==
    LET t == info.content
        kept == SelectSeq(FinalSegments(t, ReSplit(t, 0, 0)),
                          LAMBDA g : Kept(t, g))
    IN  [k \in 1..Len(kept) |->
            LET r == StripRange(t, kept[k].lo, kept[k].hi)
                section == Slice(t, r.lo, r.hi)
            IN  [text |-> section,
                 images |-> UniqueImages(FindAllImages(section, 0), hash_order),
                 source_url |-> DictGet(info.source_url, "unknown"),
                 file_type |-> DictGet(info.file_type, "unknown")]]

\* _process_structured_content_raw(docs_info)
RECURSIVE ProcessStructuredContentRaw(_, _)
ProcessStructuredContentRaw(docs_info, hash_order) ==
    IF docs_info = <<>> THEN <<>>
    ELSE ItemsOf(Head(docs_info), hash_order)
            \o ProcessStructuredContentRaw(Tail(docs_info), hash_order)

RECURSIVE Orders(_)
Orders(S) ==
    IF S = {} THEN {<<>>}
    ELSE UNION {{<<x>> \o o : o \in Orders(S \ {x})} : x \in S}

\* the orders in which the process may iterate over a set of the URLs of
\* these candidates
HashOrders(docs_info) ==
    LET items == ProcessStructuredContentRaw(docs_info, <<>>)
    IN  Orders(UNION {SeqRange(FindAllImages(items[k].text, 0)) :
                         k \in 1..Len(items)})

-----------------------------------------------------------------------------
(* The Evidence Extractor applied to candidates built from markdown pieces *)

Rep(c, n) == [i \in 1..n |-> c]

Pieces ==
    { Rep("a", MinSectionLen), Rep("a", MinSectionLen - 1),
      Rep("a", SplitThreshold \div 2),
      <<" ">>, <<"\n", "\n">>, <<"\n", "#", " ">>,
      <<"\n", "-", "-", "-", "\n">>,
      <<"!", "[", "a", "]", "(", "u", ")">>,
      <<"!", "[", "a", "]", "(", "v", ")">> }

RECURSIVE PieceTexts(_)
PieceTexts(n) ==
    IF n = 0 THEN {<<>>}
    ELSE LET shorter == PieceTexts(n - 1)
         IN  shorter \cup {s \o q : s \in shorter, q \in Pieces}

Candidate(t, url) == [content |-> t, source_url |-> url, file_type |-> "markdown"]

ExtractInputs ==
    {<<Candidate(t, url)>> : t \in PieceTexts(MaxPieces), url \in {"http://s", Missing}}
    \cup {<<Candidate(t1, "http://s"), Candidate(t2, "http://r")>> :
              t1 \in PieceTexts(1), t2 \in PieceTexts(1)}
    \cup {<<>>}

ExtractIdle(docs_info) ==
    [op |-> "idle", docs_info |-> docs_info, hash_order |-> <<>>, items |-> <<>>]

ExtractInit ==
    /\ ex \in {ExtractIdle(d) : d \in ExtractInputs}
    /\ seg = Off
    /\ rr = Off
    /\ st = Off
    /\ env = Missing
    /\ fs = <<>>
    /\ run = Off
    /\ wr = Off
    /\ rp = Off
    /\ scope = Off
    /\ twin = Off
    /\ uc = Off

\* a call of _process_structured_content_raw(docs_info)
CallExtract ==
    /\ ex.op = "idle"
    /\ \E o \in HashOrders(ex.docs_info) :
          ex' = [ex EXCEPT !.op = "extracted", !.hash_order = o,
                   !.items = ProcessStructuredContentRaw(ex.docs_info, o)]
    /\ UNCHANGED <<seg, rr, st, env, fs, run, wr, rp, scope, twin, uc>>

ExtractNext == CallExtract

SpecExtractor == ExtractInit /\ [][ExtractNext]_vars

-----------------------------------------------------------------------------
(* The session file: json.dump({"data": new_data}, f, ensure_ascii=False,   *)
(* indent=4) and json.load.  A JSON text is a sequence of characters; a key  *)
(* name and one level of indentation are written as one symbol each.         *)

Quote == "\""

Backslash == "\\"

Indent == "    "

JsonSpace == {" ", "\n", "\t", "\r", Indent}

\* the escapes of a JSON string, as <<character, letter after the backslash>>
JsonEscapes ==
    {<<Quote, Quote>>, <<Backslash, Backslash>>, <<"\n", "n">>,
     <<"\t", "t">>, <<"\r", "r">>}

\* an encoder that writes every character as it is
EscapeCharRaw(c) == <<c>>

\* py_encode_basestring: one character of a string
EscapeChar(c) ==
    IF \E e \in JsonEscapes : e[1] = c
    THEN <<Backslash, (CHOOSE e \in JsonEscapes : e[1] = c)[2]>>
    ELSE <<c>>

JsonString(v) ==
    <<Quote>> \o Concat([i \in 1..Len(v) |-> EscapeChar(v[i])]) \o <<Quote>>

NewLine(level) == <<"\n">> \o [i \in 1..level |-> Indent]

\* a list of already encoded elements at the given nesting level
JsonArray(elems, level) ==
    IF elems = <<>> THEN <<"[", "]">>
    ELSE <<"[">>
         \o Concat([i \in 1..Len(elems) |->
                NewLine(level + 1) \o elems[i]
                    \o (IF i < Len(elems) THEN <<",">> ELSE <<>>)])
         \o NewLine(level) \o <<"]">>

\* a dict of already encoded values, keys in insertion order
JsonObject(keys, vals, level) ==
    IF keys = <<>> THEN <<"{", "}">>
    ELSE <<"{">>
         \o Concat([i \in 1..Len(keys) |->
                NewLine(level + 1) \o JsonString(<<keys[i]>>) \o <<":", " ">>
                    \o vals[i] \o (IF i < Len(keys) THEN <<",">> ELSE <<>>)])
         \o NewLine(level) \o <<"}">>

\* one record of final_data (lines 148-152) at nesting level 2
JsonItem(item) ==
    JsonObject(<<"text", "images", "source_url">>,
               <<JsonString(item.text),
                 JsonArray([i \in 1..Len(item.images) |->
                               JsonString(item.images[i])], 3),
                 JsonString(item.source_url)>>, 2)

\* a writer that puts the list under another field
JsonDumpUnderItems(new_data) ==
    JsonObject(<<"items">>,
               <<JsonArray([i \in 1..Len(new_data) |-> JsonItem(new_data[i])], 1)>>,
               0)

\* json.dump({"data": new_data}, f, ensure_ascii=False, indent=4)
JsonDump(new_data) ==
    JsonObject(<<"data">>,
               <<JsonArray([i \in 1..Len(new_data) |-> JsonItem(new_data[i])], 1)>>,
               0)

\* json.load: a parse result is [ok, val, pos]; a value is tagged as a
\* string, an array or an object (a sequence of <<key, value>>)
ParseFail == [ok |-> FALSE, val |-> <<>>, pos |-> 0]

ParseOk(v, p) == [ok |-> TRUE, val |-> v, pos |-> p]

SkipSpace(txt, p) ==
    LET rest == {i \in p..Len(txt) : txt[i] \notin JsonSpace}
    IN  IF rest = {} THEN Len(txt) + 1 ELSE SetMin(rest)

\* the characters of a string literal from position p on (after the opening
\* quote), up to its closing quote
RECURSIVE ParseChars(_, _, _)
ParseChars(txt, p, acc) ==
    IF p > Len(txt) THEN ParseFail
    ELSE IF txt[p] = Quote THEN ParseOk([t |-> "str", v |-> acc], p + 1)
    ELSE IF txt[p] = Backslash
         THEN IF p + 1 <= Len(txt) /\ \E e \in JsonEscapes : e[2] = txt[p + 1]
              THEN ParseChars(txt, p + 2,
                      Append(acc, (CHOOSE e \in JsonEscapes : e[2] = txt[p + 1])[1]))
              ELSE ParseFail
    ELSE IF txt[p] \in {"\n", "\t", "\r"} THEN ParseFail
    ELSE ParseChars(txt, p + 1, Append(acc, txt[p]))

RECURSIVE ParseValue(_, _)
RECURSIVE ParseElements(_, _, _)
RECURSIVE ParseMembers(_, _, _)

ParseValue(txt, p0) ==
    LET p == SkipSpace(txt, p0)
    IN  IF p > Len(txt) THEN ParseFail
        ELSE IF txt[p] = Quote THEN ParseChars(txt, p + 1, <<>>)
        ELSE IF txt[p] = "["
             THEN LET q == SkipSpace(txt, p + 1)
                  IN  IF q <= Len(txt) /\ txt[q] = "]"
                      THEN ParseOk([t |-> "arr", v |-> <<>>], q + 1)
                      ELSE ParseElements(txt, p + 1, <<>>)
        ELSE IF txt[p] = "{"
             THEN LET q == SkipSpace(txt, p + 1)
                  IN  IF q <= Len(txt) /\ txt[q] = "}"
                      THEN ParseOk([t |-> "obj", v |-> <<>>], q + 1)
                      ELSE ParseMembers(txt, p + 1, <<>>)
        ELSE ParseFail

ParseElements(txt, p, acc) ==
    LET e == ParseValue(txt, p)
        q == SkipSpace(txt, e.pos)
    IN  IF ~e.ok \/ q > Len(txt) THEN ParseFail
        ELSE IF txt[q] = "," THEN ParseElements(txt, q + 1, Append(acc, e.val))
        ELSE IF txt[q] = "]" THEN ParseOk([t |-> "arr", v |-> Append(acc, e.val)], q + 1)
        ELSE ParseFail

ParseMembers(txt, p, acc) ==
    LET k == ParseValue(txt, p)
        c == SkipSpace(txt, k.pos)
    IN  IF ~k.ok \/ k.val.t # "str" \/ c > Len(txt) \/ txt[c] # ":" THEN ParseFail
        ELSE LET e == ParseValue(txt, c + 1)
                 q == SkipSpace(txt, e.pos)
                 m == Append(acc, <<k.val.v, e.val>>)
             IN  IF ~e.ok \/ q > Len(txt) THEN ParseFail
                 ELSE IF txt[q] = "," THEN ParseMembers(txt, q + 1, m)
                 ELSE IF txt[q] = "}" THEN ParseOk([t |-> "obj", v |-> m], q + 1)
                 ELSE ParseFail

\* json.load(f): the whole text is one value
JsonLoad(txt) ==
    LET r == ParseValue(txt, 1)
    IN  IF r.ok /\ SkipSpace(txt, r.pos) > Len(txt) THEN r ELSE ParseFail

HasKey(obj, key) == \E i \in 1..Len(obj.v) : obj.v[i][1] = <<key>>

\* obj[key]: the last member with that key
Member(obj, key) ==
    obj.v[SetMax({i \in 1..Len(obj.v) : obj.v[i][1] = <<key>>})][2]

\* the file as the report generator reads it (report_generator.py, lines
\* 56-63): [] when the file is absent or cannot be parsed, else
\* raw.get("data", raw) for a dict and raw otherwise
ReadDataList(file) ==
    IF file = Missing THEN [t |-> "arr", v |-> <<>>]
    ELSE LET raw == JsonLoad(file)
         IN  IF ~raw.ok THEN [t |-> "arr", v |-> <<>>]
             ELSE IF raw.val.t = "obj" /\ HasKey(raw.val, "data")
                  THEN Member(raw.val, "data")
             ELSE raw.val

\* the {text, images, source_url} shape the report generator expects of
\* one element of the list
IsItem(d) ==
    /\ d.t = "obj"
    /\ \A key \in {"text", "images", "source_url"} : HasKey(d, key)
    /\ Member(d, "text").t = "str"
    /\ Member(d, "source_url").t = "str"
    /\ Member(d, "images").t = "arr"
    /\ \A i \in 1..Len(Member(d, "images").v) : Member(d, "images").v[i].t = "str"

AsItem(d) ==
    [text |-> Member(d, "text").v,
     images |-> [i \in 1..Len(Member(d, "images").v) |-> Member(d, "images").v[i].v],
     source_url |-> Member(d, "source_url").v]

\* the environment is not consulted
SessionIdIgnoringEnv(environ) == "default_session"

\* os.environ.get("MANUS_SESSION_ID", "default_session")
SessionId(environ) == DictGet(environ, "default_session")

SessionIds == {"default_session", "s1"}

\* a file is written under a directory of another name than the one read
SavePathOtherDir(session_id) ==
    <<"workspace/", session_id, "/data", "/", "combined_data_", session_id, ".json">>

\* save_dir = f"workspace/{session_id}/structured_data" joined with
\* f"combined_data_{session_id}.json" (lines 216-218)
SavePath(session_id) ==
    <<"workspace/", session_id, "/structured_data">>
        \o <<"/">> \o <<"combined_data_", session_id, ".json">>

\* f"{data_dir}/combined_data_{session_id}.json" (report_generator.py 47-49)
ReportDataPath(session_id) ==
    <<"workspace/", session_id, "/structured_data">>
        \o <<"/", "combined_data_", session_id, ".json">>

StorePaths ==
    {SavePath(sid) : sid \in SessionIds} \cup {ReportDataPath(sid) : sid \in SessionIds}

\* a writer that appends to what the file already holds
SaveFinalDataMerging(files, new_data, session_id) ==
    LET old == ReadDataList(files[SavePath(session_id)])
        kept == [i \in 1..Len(old.v) |-> AsItem(old.v[i])]
    IN  [files EXCEPT ![SavePath(session_id)] = JsonDump(kept \o new_data)]

\* _save_final_data: open(path, "w") and json.dump replace the file
SaveFinalData(files, new_data, session_id) ==
    [files EXCEPT ![SavePath(session_id)] = JsonDump(new_data)]

-----------------------------------------------------------------------------
(* The Session Store written and read back for every small item list *)

StoreChars == {"a", Quote, Backslash, "\n"}

StoreUrls == {<<"u">>, <<"h", Quote>>}

StoreItems ==
    [text : SeqsUpTo(StoreChars, MaxTextLen) \ {<<>>},
     images : {<<>>, <<<<"u">>>>, <<<<"v">>, <<"u">>>>},
     source_url : StoreUrls]

\* the items that follow the first one of a list
StoreTailItems ==
    { [text |-> <<"a">>, images |-> <<>>, source_url |-> <<"u">>],
      [text |-> <<Quote, "\n">>, images |-> <<<<"v">>>>, source_url |-> <<"h", Quote>>] }

StoreLists ==
    {<<first>> \o rest : first \in StoreItems,
                         rest \in SeqsUpTo(StoreTailItems, MaxItems - 1)}

StoreIdle(data, sid) ==
    [op |-> "idle", new_data |-> data, session_id |-> sid,
     fs |-> [f \in StorePaths |-> Missing], path |-> <<>>, read |-> <<>>]

StoreInit ==
    /\ st \in {StoreIdle(d, sid) : d \in StoreLists, sid \in SessionIds}
    /\ seg = Off
    /\ rr = Off
    /\ ex = Off
    /\ env = Missing
    /\ fs = <<>>
    /\ run = Off
    /\ wr = Off
    /\ rp = Off
    /\ scope = Off
    /\ twin = Off
    /\ uc = Off

\* _save_final_data(new_data, session_id)
WriteStore ==
    /\ st.op = "idle"
    /\ st' = [st EXCEPT !.op = "written",
                 !.fs = SaveFinalData(st.fs, st.new_data, st.session_id),
                 !.path = SavePath(st.session_id)]
    /\ UNCHANGED <<seg, rr, ex, env, fs, run, wr, rp, scope, twin, uc>>

\* the report generator reads the file of the same session
ReadStore ==
    /\ st.op = "written"
    /\ st' = [st EXCEPT !.op = "read",
                 !.read = ReadDataList(st.fs[ReportDataPath(st.session_id)])]
    /\ UNCHANGED <<seg, rr, ex, env, fs, run, wr, rp, scope, twin, uc>>

StoreNext == WriteStore \/ ReadStore

SpecStore == StoreInit /\ [][StoreNext]_vars

-----------------------------------------------------------------------------
(* execute: the documents on disk and the pool built from them.  In a path  *)
(* a directory prefix, a stem and an extension are one symbol each; in a    *)
(* document so are the literals "<!--", "Source:" and "-->".                *)

ExecMinLevel == 1
ExecMaxLevel == 3
ExecMaxChars == 2000
ExecOverlap == 150
RecallK == 200
RerankTopK == 50

Marker(url) == <<"<!--", " ", "Source:", " ">> \o url \o <<" ", "-->">>

PathA == <<"a", ".md">>
PathB == <<"b", ".markdown">>
PathC == <<"c", ".txt">>
PathD == <<"docs/", "d", ".md">>
PathE == <<"e", ".md">>
PathS == <<"s", ".md">>
PathM == <<"m", ".md">>
PathIntro == <<"intro", ".md">>
PathPlain == <<"plain", ".md">>
PathNotes == <<"notes", ".md">>
PathProse == <<"prose", ".md">>
PathImg == <<"img", ".md">>
PathGone == <<"gone", ".md">>

PlainLen == 3000

\* the files that exist: two crawled pages that share a section, a plain
\* page with an image and no header, a text file, a blank page, a page
\* whose only section is too short to be kept, a page whose first source
\* marker is empty, a page with the headers '# Intro' and '## Materials',
\* a page of 3000 characters of plain text
Disk ==
    (PathA :> (Marker(<<"u">>) \o <<"\n", "#", " ", "H", "\n">> \o Rep("a", 10)
                  \o <<"\n", "#", "#", " ", "G", "\n">> \o Rep("b", 10)))
    @@ (PathD :> (Marker(<<"v">>) \o <<"\n", "#", " ", "H", "\n">> \o Rep("a", 10)))
    @@ (PathB :> (<<"!", "[", "c", "]", "(", "i", ")", " ">> \o Rep("c", 10)))
    @@ (PathC :> Rep("a", 10))
    @@ (PathE :> <<"\n", " ", "\n">>)
    @@ (PathS :> <<"#", " ", "H", "\n", "a", "b">>)
    @@ (PathM :> (Marker(<<>>) \o <<"\n">> \o Marker(<<"w">>)
                  \o <<"\n", "#", " ", "H", "\n">> \o Rep("m", 10)))
    @@ (PathIntro :> (<<"#", " ", "I", "n", "t", "r", "o", "\n">> \o Rep("i", 10)
                  \o <<"\n", "#", "#", " ", "M", "a", "t", "e", "r", "i", "a", "l", "s", "\n">>
                  \o Rep("k", 10)))
    @@ (PathPlain :> Rep("x", PlainLen))
    @@ (PathNotes :> (<<"p", "r", "e", "\n", "#", " ", "I", "n", "t", "r", "o", "\n">>
                  \o <<"#", "#", " ", "M", "a", "t", "e", "r", "i", "a", "l", "s", "\n">>
                  \o Rep("k", 10)))
    @@ (PathImg :> (<<"!", "[", "a", "]", "(", "u", ")", " ",
                      "!", "[", "b", "]", "(", "v", ")", " ">> \o Rep("g", 10)))
    @@ (PathProse :> (Rep("x", 1000) \o Rep(" ", 1500) \o Rep("y", PlainLen - 2500)))

\* os.path.exists(path)
Exists(path) == path \in DOMAIN Disk

\* a file of any extension is accepted
IsMarkdownPathAny(path) == path # <<>>

\* path.endswith(".md") or path.endswith(".markdown")
IsMarkdownPath(path) ==
    path # <<>> /\ path[Len(path)] \in {".md", ".markdown"}

\* os.path.basename(path)
Basename(path) ==
    LET dirs == {k \in 1..Len(path) : path[k] \in {"docs/"}}
    IN  IF dirs = {} THEN path ELSE SubSeq(path, SetMax(dirs) + 1, Len(path))

\* <!--\s*Source:\s*(.*?)\s*--> at position p: where group 1 starts, and
\* the ends the lazy group can take
SourceGroupStart(t, p) ==
    LET a == p + 1 + RunLen(t, p + 1, "\\s")
    IN  a + 1 + RunLen(t, a + 1, "\\s")

SourceGroupEnds(t, p) ==
    LET q == SourceGroupStart(t, p)
    IN  {e \in q..(q + RunLen(t, q, ".")) :
            LET c == e + RunLen(t, e, "\\s")
            IN  c < Len(t) /\ At(t, c) = "-->"}

HasSourceAt(t, p) ==
    /\ At(t, p) = "<!--"
    /\ LET a == p + 1 + RunLen(t, p + 1, "\\s")
       IN  a < Len(t) /\ At(t, a) = "Source:"
    /\ SourceGroupEnds(t, p) # {}

\* re.search(r"<!--\s*Source:\s*(.*?)\s*-->", content), then
\* group(1).strip(); Missing when there is no match
SourceMarker(t) ==
    LET at == {p \in 0..(Len(t) - 1) : HasSourceAt(t, p)}
    IN  IF at = {} THEN Missing
        ELSE LET p == SetMin(at)
             IN  Strip(Slice(t, SourceGroupStart(t, p), SetMin(SourceGroupEnds(t, p))))

\* not x, for a string or None
Falsy(x) == x = Missing \/ x = <<>>

\* the caller's URL wins even when the document names its own
CurrentSourceCallerLast(source_url, content) ==
    LET marker == SourceMarker(content)
    IN  IF ~Falsy(marker) THEN marker
        ELSE IF ~Falsy(source_url) THEN source_url
        ELSE <<"unknown_source">>

\* lines 85-97: the caller's URL, else the marker, else the sentinel
CurrentSource(source_url, content) ==
    IF ~Falsy(source_url) THEN source_url
    ELSE LET marker == SourceMarker(content)
         IN  IF ~Falsy(marker) THEN marker ELSE <<"unknown_source">>

\* the blocks of every file on disk (lines 100-106)
DiskSections ==
    [path \in DOMAIN Disk |->
        Texts(Disk[path],
              SplitMarkdownByHeaders(Disk[path], ExecMinLevel, ExecMaxLevel,
                                     ExecMaxChars, ExecOverlap))]

\* md_docs of one path (lines 69-117); nothing for a path that is skipped
DocsOfPath(path, source_url) ==
    IF ~Exists(path) \/ ~IsMarkdownPath(path) THEN <<>>
    ELSE [k \in 1..Len(DiskSections[path]) |->
            [page_content |-> DiskSections[path][k],
             metadata |-> [source_url |-> CurrentSource(source_url, Disk[path]),
                           file_type |-> "markdown",
                           file_name |-> Basename(path)]]]

\* one call of logger.info / logger.warning in the loading loop
LogEntry(level, event, file_name) ==
    [level |-> level, event |-> event, file_name |-> file_name]

\* the log lines of one path (lines 72-97): none for a missing path, a
\* warning for an unsupported one
LogOfPath(path, source_url) ==
    IF ~Exists(path) THEN <<>>
    ELSE IF ~IsMarkdownPath(path)
         THEN <<LogEntry("warning", "Skip non-markdown file", Basename(path))>>
    ELSE <<LogEntry("info", "Processing Markdown (Raw)", Basename(path))>>
            \o (IF Falsy(source_url) /\ Falsy(SourceMarker(Disk[path]))
                 THEN <<LogEntry("warning", "No source URL found", Basename(path))>>
                 ELSE <<>>)

\* what the loading loop has logged
RECURSIVE LoadLog(_, _)
LoadLog(file_paths, source_url) ==
    IF file_paths = <<>> THEN <<>>
    ELSE LogOfPath(Head(file_paths), source_url)
            \o LoadLog(Tail(file_paths), source_url)

\* all_docs_pool after the loading loop
RECURSIVE LoadPool(_, _)
LoadPool(file_paths, source_url) ==
    IF file_paths = <<>> THEN <<>>
    ELSE DocsOfPath(Head(file_paths), source_url)
            \o LoadPool(Tail(file_paths), source_url)

-----------------------------------------------------------------------------
(* execute: recall, extraction, re-ranking.  The two models are functions of *)
(* the query and the text; these are the ones the pipeline is run with.      *)

\* the embedding model: a text is the closer to the query the more of its
\* characters are keywords of the query
EmbedSimilarity(query, text) ==
    Cardinality({k \in 1..Len(text) : text[k] \in SeqRange(query)})

\* the cross-encoder: the number of keywords of the query the text holds
RerankScore(query, text) ==
    Cardinality({w \in SeqRange(query) : w \in SeqRange(text)})

\* FAISS.from_documents(pool, model).similarity_search(query, k)
SimilaritySearch(pool, query, k) ==
    LET ranked == SortedByScore(
            [i \in 1..Len(pool) |->
                [score |-> EmbedSimilarity(query, pool[i].page_content),
                 doc |-> pool[i]]])
    IN  [i \in 1..Min2(k, Len(ranked)) |-> ranked[i].doc]

\* docs_info (lines 130-136)
DocsInfo(retrieved_candidates) ==
    [i \in 1..Len(retrieved_candidates) |->
        [content |-> retrieved_candidates[i].page_content,
         source_url |-> retrieved_candidates[i].metadata.source_url,
         file_type |-> retrieved_candidates[i].metadata.file_type]]

\* structured_docs_for_rerank (lines 140-143)
DocsForRerank(structured_items) ==
    [i \in 1..Len(structured_items) |->
        [page_content |-> structured_items[i].text, metadata |-> structured_items[i]]]

\* final_data (lines 147-152)
FinalData(reranked_docs) ==
    [i \in 1..Len(reranked_docs) |->
        [text |-> reranked_docs[i].page_content,
         images |-> reranked_docs[i].metadata.images,
         source_url |-> reranked_docs[i].metadata.source_url]]

\* the re-ranked evidence of a list of structured items
Evidence(query, structured_items) ==
    LET docs == DocsForRerank(structured_items)
    IN  FinalData(PerformRerank(query, docs, RerankTopK,
                     [t \in TextsOf(docs) |-> RerankScore(query, t)]))

-----------------------------------------------------------------------------
(* execute, step by step *)

Queries == {<<"a">>, <<"b", "c">>}

SourceUrls == {Missing, <<"http://p">>}

EnvValues == {Missing, "s1"}

\* the file_paths lists the tool is called with
PathLists ==
    {<<>>, <<PathGone, PathC>>, <<PathE>>, <<PathS>>, <<PathA>>,
     <<PathB, PathGone, PathA>>, <<PathA, PathD>>}

NoResult == [kind |-> "none"]

NoItemsFound == [kind |-> "output", text |-> "Batch process finished, no items found."]

SavedResult(n, path) ==
    [kind |-> "output", text |-> "Raw extraction complete. Saved", items |-> n,
     path |-> path]

\* the exception is caught and reported as a textual result
RaisedAsOutput(step) == [kind |-> "output", text |-> "failed", step |-> step]

\* an exception of the recall or re-ranking step is not caught in execute
Raised(step) == [kind |-> "raised", step |-> step]

Running == {"loaded", "recalled", "reranked"}

RunInit ==
    [pc |-> "idle", query |-> <<>>, file_paths |-> <<>>, source_url |-> Missing,
     session_id |-> "", all_docs_pool |-> <<>>, structured_items |-> <<>>,
     final_data |-> <<>>, calls |-> <<>>, log |-> <<>>, result |-> NoResult]

Init ==
    /\ env \in EnvValues
    /\ fs = [f \in StorePaths |-> Missing]
    /\ run = RunInit
    /\ seg = Off
    /\ rr = Off
    /\ ex = Off
    /\ st = Off
    /\ wr = Off
    /\ rp = Off
    /\ scope = Off
    /\ twin = Off
    /\ uc = Off

\* the caller's environment sets or clears MANUS_SESSION_ID between calls
SetEnv ==
    /\ run.pc \notin Running
    /\ \E v \in EnvValues : v # env /\ env' = v
    /\ UNCHANGED <<fs, run>>

\* a pool that is kept from call to call and grows
StartRunKeepingPool(q, paths, url, environ) ==
    [RunInit EXCEPT !.pc = "loaded", !.query = q,
        !.file_paths = paths, !.source_url = url,
        !.session_id = SessionId(environ),
        !.all_docs_pool = run.all_docs_pool \o LoadPool(paths, url),
        !.log = LoadLog(paths, url)]

\* the locals of execute after the loading loop (lines 62-120)
StartRun(q, paths, url, environ) ==
    [RunInit EXCEPT !.pc = "loaded", !.query = q,
        !.file_paths = paths, !.source_url = url,
        !.session_id = SessionId(environ),
        !.all_docs_pool = LoadPool(paths, url),
        !.log = LoadLog(paths, url)]

\* lines 62-120: a call starts, reads the session identifier and loads
\* the pool
Invoke ==
    /\ run.pc \notin Running
    /\ \E q \in Queries, paths \in PathLists, url \in SourceUrls :
          run' = StartRun(q, paths, url, env)
    /\ UNCHANGED <<env, fs>>

\* the guard is dropped: the index is built over any pool
PoolUsableAlways(all_docs_pool) == TRUE

\* if all_docs_pool: (line 124)
PoolUsable(all_docs_pool) == all_docs_pool # <<>>

\* lines 127-138: the index is built and searched, the candidates are cut
\* into sections
Recall ==
    /\ run.pc = "loaded"
    /\ PoolUsable(run.all_docs_pool)
    /\ LET docs_info == DocsInfo(SimilaritySearch(run.all_docs_pool, run.query, RecallK))
       IN  \E o \in HashOrders(docs_info) :
              run' = [run EXCEPT !.pc = "recalled",
                        !.calls = <<"from_documents", "similarity_search">>,
                        !.structured_items = ProcessStructuredContentRaw(docs_info, o)]
    /\ UNCHANGED <<env, fs>>

\* the embedding model or the index throws: the exception leaves execute
RecallFails ==
    /\ run.pc = "loaded"
    /\ PoolUsable(run.all_docs_pool)
    /\ run' = [run EXCEPT !.pc = "failed", !.calls = <<"from_documents">>,
                  !.result = Raised("embedding")]
    /\ UNCHANGED <<env, fs>>

\* re-ranking that hands the list to the model even when it is empty
RerankAlwaysPredicts ==
    /\ run.pc = "recalled"
    /\ run' = [run EXCEPT !.pc = "reranked",
                  !.calls = Append(run.calls, "predict"),
                  !.final_data = Evidence(run.query, run.structured_items)]
    /\ UNCHANGED <<env, fs>>

\* lines 140-152: re-ranking; predict is called for a non-empty list only
Rerank ==
    /\ run.pc = "recalled"
    /\ run' = [run EXCEPT !.pc = "reranked",
                  !.calls = IF run.structured_items = <<>> THEN run.calls
                            ELSE Append(run.calls, "predict"),
                  !.final_data = Evidence(run.query, run.structured_items)]
    /\ UNCHANGED <<env, fs>>

\* the cross-encoder throws: the exception leaves execute
RerankFails ==
    /\ run.pc = "recalled"
    /\ run.structured_items # <<>>
    /\ run' = [run EXCEPT !.pc = "failed", !.calls = Append(run.calls, "predict"),
                  !.result = Raised("rerank")]
    /\ UNCHANGED <<env, fs>>

\* lines 154-159: the list is saved when it is not empty, and the call
\* returns; an empty pool comes here directly
Finish ==
    /\ run.pc = "reranked" \/ (run.pc = "loaded" /\ ~PoolUsable(run.all_docs_pool))
    /\ IF run.final_data # <<>>
       THEN /\ fs' = SaveFinalData(fs, run.final_data, run.session_id)
            /\ run' = [run EXCEPT !.pc = "done",
                          !.result = SavedResult(Len(run.final_data),
                                                 SavePath(run.session_id))]
       ELSE /\ fs' = fs
            /\ run' = [run EXCEPT !.pc = "done", !.result = NoItemsFound]
    /\ UNCHANGED env

Next ==
    /\ \/ SetEnv
       \/ Invoke
       \/ Recall
       \/ RecallFails
       \/ Rerank
       \/ RerankFails
       \/ Finish
    /\ UNCHANGED <<seg, rr, ex, st, wr, rp, scope, twin, uc>>

Spec == Init /\ [][Next]_vars

-----------------------------------------------------------------------------
(* The loading loop of execute applied to every short list of paths *)

MaxPaths == 2

LoaderPaths == DOMAIN Disk \cup {PathGone}

LoaderPathLists == SeqsUpTo(LoaderPaths, MaxPaths)

\* source_url as the caller passes it: absent, empty, a URL
LoaderSourceUrls == {Missing, <<>>, <<"http://p">>}

LoaderInit ==
    /\ run = RunInit
    /\ env = Missing
    /\ fs = <<>>
    /\ seg = Off
    /\ rr = Off
    /\ ex = Off
    /\ st = Off
    /\ wr = Off
    /\ rp = Off
    /\ scope = Off
    /\ twin = Off
    /\ uc = Off

\* lines 62-120 of execute
Load ==
    /\ run.pc = "idle"
    /\ \E paths \in LoaderPathLists, url \in LoaderSourceUrls :
          run' = StartRun(<<"a">>, paths, url, env)
    /\ UNCHANGED <<seg, rr, ex, st, env, fs, wr, rp, scope, twin, uc>>

LoaderNext == Load

SpecLoader == LoaderInit /\ [][LoaderNext]_vars

-----------------------------------------------------------------------------
(* _save_final_data run by two processes on the file of one session.       *)
(* open(path, "w") creates or truncates the file and starts at offset 0;   *)
(* json.dump writes into the buffer of the file object, which is written   *)
(* out at the process's own offset when it is full and when the file is    *)
(* closed.                                                                 *)

\* characters the file object holds before it writes them out
BufferSize == 40

Writers == {1, 2}

\* a byte of a hole left by a write beyond the end of the file
Nul == "NUL"

RaceItem(c, n) == [text |-> Rep(c, n), images |-> <<>>, source_url |-> <<"u">>]

\* the lists the two calls have produced
RaceLists ==
    {<<RaceItem("a", 10)>>, <<RaceItem("b", 12)>>,
     <<RaceItem("a", 10), RaceItem("c", 10)>>}

\* write(fd, chunk) at offset pos of a file opened without O_APPEND
WriteAt(file, pos, chunk) ==
    SubSeq(file, 1, Min2(pos, Len(file)))
        \o Rep(Nul, Max2(0, pos - Len(file)))
        \o chunk
        \o SubSeq(file, pos + Len(chunk) + 1, Len(file))

RaceInit ==
    /\ \E sid \in SessionIds :
          \E d1 \in RaceLists, d2 \in RaceLists :
             wr = [session_id |-> sid, last |-> 0,
                   proc |-> [w \in Writers |->
                       [pc |-> "ready", pos |-> 0,
                        new_data |-> IF w = 1 THEN d1 ELSE d2]]]
    /\ fs = [f \in StorePaths |-> Missing]
    /\ env = Missing
    /\ run = Off
    /\ seg = Off
    /\ rr = Off
    /\ ex = Off
    /\ st = Off
    /\ rp = Off
    /\ scope = Off
    /\ twin = Off
    /\ uc = Off

\* line 219: open(path, "w")
OpenFile(w) ==
    /\ wr.proc[w].pc = "ready"
    /\ fs' = [fs EXCEPT ![SavePath(wr.session_id)] = <<>>]
    /\ wr' = [wr EXCEPT !.proc[w].pc = "open"]

\* line 220: json.dump has filled the buffer, which is written out
FlushBuffer(w) ==
    LET me == wr.proc[w]
        text == JsonDump(me.new_data)
    IN  /\ me.pc = "open"
        /\ Len(text) - me.pos > BufferSize
        /\ fs' = [fs EXCEPT ![SavePath(wr.session_id)] =
                      WriteAt(@, me.pos, SubSeq(text, me.pos + 1, me.pos + BufferSize))]
        /\ wr' = [wr EXCEPT !.proc[w].pos = me.pos + BufferSize, !.last = w]

\* line 219, end of the with block: the rest is written out, the file is
\* closed
CloseFile(w) ==
    LET me == wr.proc[w]
        text == JsonDump(me.new_data)
    IN  /\ me.pc = "open"
        /\ Len(text) - me.pos <= BufferSize
        /\ fs' = [fs EXCEPT ![SavePath(wr.session_id)] =
                      WriteAt(@, me.pos, SubSeq(text, me.pos + 1, Len(text)))]
        /\ wr' = [wr EXCEPT !.proc[w].pos = Len(text), !.proc[w].pc = "closed",
                              !.last = w]

RaceNext ==
    /\ \E w \in Writers : OpenFile(w) \/ FlushBuffer(w) \/ CloseFile(w)
    /\ UNCHANGED <<seg, rr, ex, st, env, run, rp, scope, twin, uc>>

SpecRace == RaceInit /\ [][RaceNext]_vars

-----------------------------------------------------------------------------
(* ReportGeneratorTool.execute on the session files, between calls of the   *)
(* pipeline and writes of other programs to the same files.                 *)

\* execute of the pipeline as one step: the list it would save
ExecuteFinalData(query, file_paths, source_url, hash_order) ==
    LET pool == LoadPool(file_paths, source_url)
    IN  IF ~PoolUsable(pool) THEN <<>>
        ELSE Evidence(query,
                 ProcessStructuredContentRaw(
                     DocsInfo(SimilaritySearch(pool, query, RecallK)), hash_order))

ReportPathLists == {<<>>, <<PathA>>}

\* what another program may leave in a session file: a broken text, empty
\* values, a bare list, an object without the field 'data'
ForeignFiles ==
    {<<"{", Quote, "data">>,
     JsonDump(<<>>),
     JsonObject(<<>>, <<>>, 0),
     JsonArray(<<JsonItem(RaceItem("a", 10))>>, 0),
     JsonObject(<<"text">>, <<JsonString(<<"a">>)>>, 0)}

\* not data_list (line 65 of report_generator.py)
EmptyValueNever(data_list) == FALSE

EmptyValue(data_list) == data_list.v = <<>>

NoDataError(session_id) ==
    [kind |-> "error", text |-> "No structured data found for session",
     session_id |-> session_id, hint |-> "Run extraction first."]

\* output_dir/safe_topic.md (lines 114-121 of report_generator.py)
ReportFile(session_id, dir_exists) ==
    IF dir_exists THEN <<"workspace/", session_id, "/reports", "/", "topic", ".md">>
    ELSE <<"reports", "/", "topic", ".md">>

ReportFiles == {ReportFile(sid, TRUE) : sid \in SessionIds}

\* what self.llm.ask does: a text, None, an exception
LlmReplies == {"text", "none", "raises"}

ReportIdle ==
    [pc |-> "idle", session_id |-> "", data_list |-> [t |-> "arr", v |-> <<>>],
     llm_calls |-> 0, result |-> NoResult,
     reports |-> [f \in ReportFiles |-> Missing]]

ReportInit ==
    /\ env \in EnvValues
    /\ fs = [f \in StorePaths |-> Missing]
    /\ rp = ReportIdle
    /\ run = RunInit
    /\ seg = Off
    /\ rr = Off
    /\ ex = Off
    /\ st = Off
    /\ wr = Off
    /\ scope = Off
    /\ twin = Off
    /\ uc = Off

\* the lists whole calls of the pipeline end with
ExtractResults ==
    UNION {LET docs_info == DocsInfo(SimilaritySearch(LoadPool(paths, Missing),
                                                      <<"a">>, RecallK))
           IN  {ExecuteFinalData(<<"a">>, paths, Missing, o) :
                    o \in HashOrders(docs_info)} : paths \in ReportPathLists}

\* a whole call of the pipeline (lines 55-159 of context_filter.py)
Extract ==
    /\ \E final_data \in ExtractResults :
          fs' = IF final_data # <<>>
                THEN SaveFinalData(fs, final_data, SessionId(env))
                ELSE fs
    /\ UNCHANGED <<env, run, rp>>

\* another program writes or removes a session file
ForeignWrite ==
    /\ \E f \in StorePaths :
          \/ \E content \in ForeignFiles : fs' = [fs EXCEPT ![f] = content]
          \/ fs' = [fs EXCEPT ![f] = Missing]
    /\ UNCHANGED <<env, run, rp>>

\* lines 45-66 of report_generator.py: the data is loaded, and the call
\* ends with an error when there is none
ReportLoad ==
    /\ rp.pc \in {"idle", "done"}
    /\ LET session_id == SessionId(env)
           data_list == ReadDataList(fs[ReportDataPath(session_id)])
       IN  rp' = IF EmptyValue(data_list)
                 THEN [rp EXCEPT !.pc = "done", !.session_id = session_id,
                          !.data_list = data_list, !.llm_calls = 0,
                          !.result = NoDataError(session_id)]
                 ELSE [rp EXCEPT !.pc = "loaded", !.session_id = session_id,
                          !.data_list = data_list, !.llm_calls = 0,
                          !.result = NoResult]
    /\ UNCHANGED <<env, fs, run>>

\* lines 101-133 of report_generator.py: the model is asked and the report
\* is written; the session file was read, so its directory exists
ReportSynthesize ==
    /\ rp.pc = "loaded"
    /\ \E reply \in LlmReplies :
          LET filename == ReportFile(rp.session_id, TRUE)
          IN  rp' = [rp EXCEPT !.pc = "done", !.llm_calls = 1,
                       !.reports = IF reply = "raises" THEN @
                                   ELSE [@ EXCEPT ![filename] =
                                           IF reply = "text" THEN <<"r">> ELSE <<>>],
                       !.result = IF reply = "text"
                                  THEN [kind |-> "output", text |-> "Report generated. Saved to",
                                        path |-> filename]
                                  ELSE [kind |-> "error", text |-> "exception"]]
    /\ UNCHANGED <<env, fs, run>>

ReportNext ==
    /\ \/ SetEnv /\ UNCHANGED rp
       \/ Extract
       \/ ForeignWrite
       \/ ReportLoad
       \/ ReportSynthesize
    /\ UNCHANGED <<seg, rr, ex, st, wr, scope, twin, uc>>

SpecReport == ReportInit /\ [][ReportNext]_vars

-----------------------------------------------------------------------------
(* Two callers, each with its own environment: each saves the list of its   *)
(* call and then has the report generator read the file of its session.     *)

Callers == {1, 2}

\* MANUS_SESSION_ID of a caller: absent, the default's name, two others
ScopeEnvs == {Missing, "default_session", "s1", "s2"}

ScopePaths ==
    {SavePath(SessionId(e)) : e \in ScopeEnvs}
        \cup {ReportDataPath(SessionId(e)) : e \in ScopeEnvs}

\* the list caller c has produced
ScopeData(c) ==
    IF c = 1 THEN <<RaceItem("a", 10)>> ELSE <<RaceItem("b", 12), RaceItem("c", 10)>>

ScopeInit ==
    /\ scope \in [Callers -> {[environ |-> e, pc |-> "ready", read |-> <<>>] :
                                e \in ScopeEnvs}]
    /\ fs = [f \in ScopePaths |-> Missing]
    /\ env = Missing
    /\ run = Off
    /\ seg = Off
    /\ rr = Off
    /\ ex = Off
    /\ st = Off
    /\ wr = Off
    /\ rp = Off
    /\ twin = Off
    /\ uc = Off

\* lines 64 and 154-157 of context_filter.py: the call of caller c saves
ScopeSave(c) ==
    /\ scope[c].pc \in {"ready", "read"}
    /\ fs' = SaveFinalData(fs, ScopeData(c), SessionId(scope[c].environ))
    /\ scope' = [scope EXCEPT ![c].pc = "saved"]

\* lines 45-63 of report_generator.py: the report call of caller c loads
ScopeRead(c) ==
    /\ scope[c].pc = "saved"
    /\ LET data_list == ReadDataList(fs[ReportDataPath(SessionId(scope[c].environ))])
       IN  scope' = [scope EXCEPT ![c].pc = "read",
                            ![c].read = [i \in 1..Len(data_list.v) |->
                                            AsItem(data_list.v[i])]]
    /\ fs' = fs

ScopeNext ==
    /\ \E c \in Callers : ScopeSave(c) \/ ScopeRead(c)
    /\ UNCHANGED <<seg, rr, ex, st, env, run, wr, rp, twin, uc>>

SpecScope == ScopeInit /\ [][ScopeNext]_vars

-----------------------------------------------------------------------------
(* Two calls of execute with the same arguments over the same files.  Each   *)
(* call runs in a process of its own string hashing and under the            *)
(* MANUS_SESSION_ID its environment has at that time.                        *)

Invocations == {1, 2}

\* the arguments the two calls are made with
TwinQueries == << <<"a">>, <<"b", "c">> >>

TwinPathLists ==
    << <<>>, <<PathS>>, <<PathA>>, <<PathImg>>, <<PathB, PathImg>>, <<PathA, PathD>> >>

TwinSourceUrls == <<Missing, <<"http://p">>>>

\* final_data of every call of execute with these arguments, one for each
\* order the process may iterate over a set of URLs in
TwinOutcomes ==
    [qi \in DOMAIN TwinQueries, pi \in DOMAIN TwinPathLists, ui \in DOMAIN TwinSourceUrls |->
        LET pool == LoadPool(TwinPathLists[pi], TwinSourceUrls[ui])
            docs_info == DocsInfo(SimilaritySearch(pool, TwinQueries[qi], RecallK))
        IN  {ExecuteFinalData(TwinQueries[qi], TwinPathLists[pi], TwinSourceUrls[ui], o) :
                o \in HashOrders(docs_info)}]

TwinIdle(qi, pi, ui) ==
    [args |-> <<qi, pi, ui>>,
     query |-> TwinQueries[qi], file_paths |-> TwinPathLists[pi],
     source_url |-> TwinSourceUrls[ui],
     session_id |-> [i \in Invocations |-> ""],
     final_data |-> [i \in Invocations |-> <<>>],
     result |-> [i \in Invocations |-> NoResult]]

TwinInit ==
    /\ \E qi \in DOMAIN TwinQueries, pi \in DOMAIN TwinPathLists,
          ui \in DOMAIN TwinSourceUrls : twin = TwinIdle(qi, pi, ui)
    /\ env \in EnvValues
    /\ fs = [f \in StorePaths |-> Missing]
    /\ run = Off
    /\ seg = Off
    /\ rr = Off
    /\ ex = Off
    /\ st = Off
    /\ wr = Off
    /\ rp = Off
    /\ scope = Off
    /\ uc = Off

\* the environment sets or clears MANUS_SESSION_ID between the calls
TwinSetEnv ==
    /\ \E v \in EnvValues : v # env /\ env' = v
    /\ UNCHANGED <<fs, twin>>

\* lines 55-159: call i of execute, from the loading loop to the result
TwinExecute(i) ==
    /\ twin.result[i] = NoResult
    /\ \E final_data \in TwinOutcomes[twin.args] :
          LET session_id == SessionId(env)
          IN  /\ fs' = IF final_data # <<>>
                        THEN SaveFinalData(fs, final_data, session_id)
                        ELSE fs
              /\ twin' = [twin EXCEPT
                    !.session_id[i] = session_id,
                    !.final_data[i] = final_data,
                    !.result[i] = IF final_data # <<>>
                                  THEN SavedResult(Len(final_data),
                                                   SavePath(session_id))
                                  ELSE NoItemsFound]
    /\ UNCHANGED env

TwinNext ==
    /\ \/ TwinSetEnv
       \/ \E i \in Invocations : TwinExecute(i)
    /\ UNCHANGED <<seg, rr, ex, st, run, wr, rp, scope, uc>>

SpecTwin == TwinInit /\ [][TwinNext]_vars

-----------------------------------------------------------------------------
(* UserContextTool: the stored preferences and the commands of execute *)

\* Python's None as the value of an optional string parameter
None == "<None>"

\* an optional list parameter: <<>> is None, <<l>> is the list l
NoList == <<>>

ContextKeys ==
    {"design_type", "style_preference", "budget_range", "color_palette",
     "target_audience", "extra_requirements"}

\* line 60 and line 127: the empty dict
EmptyContext == [k \in {} |-> None]

\* `not self._context`
IsEmptyContext(context) == DOMAIN context = {}

\* the truth value of an optional string and of an optional list
TruthyText(v) == v # None /\ v # ""

TruthyList(c) == c # NoList /\ c[1] # <<>>

TruthyArg(args, k) ==
    IF k = "color_palette" THEN TruthyList(args[k]) ELSE TruthyText(args[k])

\* the literals of lines 97-101, in English: "not set" for the style and
\* the budget, "general" for the audience, "none" for the extra requirements
NotSet == "not set"

General == "general"

NoExtra == "none"

DesignTypes == {None, "", "a", "b"}

TextValues == {None, "", "a"}

Palettes == {NoList, << <<>> >>, << <<"a">> >>}

\* execute called with the command alone: every other parameter defaults
NoArgs ==
    [design_type |-> None, style_preference |-> None, budget_range |-> None,
     color_palette |-> NoList, target_audience |-> None,
     extra_requirements |-> None]

\* the parameters a call passes explicitly
Passed(args) == {k \in ContextKeys : args[k] # NoArgs[k]}

\* the calls that pass at most MaxPassed of the six optional parameters
ArgRecords ==
    {args \in [design_type : DesignTypes, style_preference : TextValues,
               budget_range : TextValues, color_palette : Palettes,
               target_audience : TextValues, extra_requirements : TextValues] :
        Cardinality(Passed(args)) <= MaxPassed}

Commands == {"set", "update", "get", "clear", "reset"}

ToolError(context, message) ==
    [error |-> TRUE, context |-> context, output |-> message]

ToolResult(context, message) ==
    [error |-> FALSE, context |-> context, output |-> message]

\* lines 89-103
SetContext(context, args) ==
    IF ~TruthyText(args.design_type)
    THEN ToolError(context, "set needs design_type")
    ELSE LET new == [k \in ContextKeys |->
                        CASE k = "design_type" -> args.design_type
                          [] k = "style_preference" ->
                                IF TruthyText(args[k]) THEN args[k] ELSE NotSet
                          [] k = "budget_range" ->
                                IF TruthyText(args[k]) THEN args[k] ELSE NotSet
                          [] k = "color_palette" ->
                                IF TruthyList(args[k]) THEN args[k][1] ELSE <<>>
                          [] k = "target_audience" ->
                                IF TruthyText(args[k]) THEN args[k] ELSE General
                          [] OTHER ->
                                IF TruthyText(args[k]) THEN args[k] ELSE NoExtra]
         IN  ToolResult(new, "set")

\* lines 110-115 with every `if` taken
UpdateContextOverwriting(context, args) ==
    IF IsEmptyContext(context)
    THEN ToolError(context, "not initialised")
    ELSE ToolResult([k \in ContextKeys |->
                      IF k = "color_palette"
                      THEN (IF args[k] = NoList THEN <<>> ELSE args[k][1])
                      ELSE args[k]], "updated")

\* lines 105-117
UpdateContext(context, args) ==
    IF IsEmptyContext(context)
    THEN ToolError(context, "not initialised")
    ELSE ToolResult([k \in ContextKeys |->
                      IF TruthyArg(args, k)
                      THEN (IF k = "color_palette" THEN args[k][1] ELSE args[k])
                      ELSE context[k]], "updated")

\* line 137-141: the required fields that are not filled in
MissingFields(context) ==
    {k \in {"design_type", "style_preference"} :
        context[k] = "" \/ context[k] = None \/ context[k] = NotSet}

\* lines 131-146
GetContext(context) ==
    IF IsEmptyContext(context)
    THEN ToolResult(context, <<"missing info">>)
    ELSE ToolResult(context, <<"formatted", MissingFields(context)>>)

\* lines 125-128
ClearContext(context) == ToolResult(EmptyContext, "cleared")

\* lines 74-87
Execute(context, command, args) ==
    CASE command = "set" -> SetContext(context, args)
      [] command = "update" -> UpdateContext(context, args)
      [] command = "get" -> GetContext(context)
      [] command = "clear" -> ClearContext(context)
      [] OTHER -> ToolError(context, "unsupported command")

\* the parameters of a call whose value is true in a condition
Supplied(args) == {k \in ContextKeys : TruthyArg(args, k)}

\* the tool after construction; later, the stored context with the last
\* command, the parameters it supplied and how it ended
UserInit ==
    /\ uc = [op |-> "user_context", context |-> EmptyContext,
             command |-> "none", supplied |-> {}, error |-> FALSE,
             output |-> ""]
    /\ seg = Off
    /\ rr = Off
    /\ ex = Off
    /\ st = Off
    /\ env = Missing
    /\ fs = <<>>
    /\ run = Off
    /\ wr = Off
    /\ rp = Off
    /\ scope = Off
    /\ twin = Off

UserCall(command, args) ==
    LET r == Execute(uc.context, command, args)
    IN  uc' = [uc EXCEPT !.context = r.context, !.command = command,
                         !.supplied = Supplied(args), !.error = r.error,
                         !.output = r.output]

UserSet == \E args \in ArgRecords : UserCall("set", args)

UserUpdate == \E args \in ArgRecords : UserCall("update", args)

UserGet == UserCall("get", NoArgs)

UserClear == UserCall("clear", NoArgs)

UserOther == UserCall("reset", NoArgs)

UserNext ==
    /\ \/ UserSet
       \/ UserUpdate
       \/ UserGet
       \/ UserClear
       \/ UserOther
    /\ UNCHANGED <<seg, rr, ex, st, env, fs, run, wr, rp, scope, twin>>

SpecUser == UserInit /\ [][UserNext]_vars

-----------------------------------------------------------------------------
(* Properties of the Segmenter *)

NonSpaceAt(t) == {i \in 0..(Len(t) - 1) : ~IsSpace(At(t, i))}

Covered(ranges) ==
    UNION {ranges[k].lo..(ranges[k].hi - 1) : k \in 1..Len(ranges)}

\* C1: after _split_markdown_by_headers every non-whitespace character of
\* the content lies in at least one returned block, wherever it sits
\* relative to the headers.
SegmentationCoverage ==
    seg.op = "split" => NonSpaceAt(seg.content) \subseteq Covered(seg.ranges)

\* the blocks the secondary split starts from: the header sections, or the
\* whole content when it has no header
PrimaryBlocks ==
    IF seg.sections # <<>> THEN seg.sections
    ELSE <<[lo |-> 0, hi |-> Len(seg.content)]>>

\* C2: every block returned by the Segmenter is at most max_chars long, and
\* every non-whitespace character of every block the secondary split starts
\* from is still in a returned block: the bound is met by chunking, never by
\* dropping a block.
BoundInvariant ==
    seg.op = "split" =>
        /\ \A k \in 1..Len(seg.blocks) : Len(seg.blocks[k]) <= seg.max_chars
        /\ (NonSpaceAt(seg.content) \cap Covered(PrimaryBlocks))
               \subseteq Covered(seg.ranges)

\* C2 witness: a header section longer than max_chars was split into
\* several blocks.
BoundWitness ==
    /\ seg.op = "split"
    /\ \E k \in 1..Len(seg.sections) :
          seg.sections[k].hi - seg.sections[k].lo > seg.max_chars
    /\ Len(seg.blocks) >= 2

LastChars(s, n) == SubSeq(s, Len(s) - n + 1, Len(s))

FirstChars(s, n) == SubSeq(s, 1, n)

UntrimmedBoundary(k) ==
    /\ seg.ranges[k].hi = seg.ranges[k].whi
    /\ seg.ranges[k + 1].lo = seg.ranges[k + 1].wlo

-----------------------------------------------------------------------------
(* Properties of the Reranker *)

\* C5: the output of _perform_rerank holds no two entries with the same
\* text, whatever the input list; a text supplied twice with different
\* metadata is there at most once.
DedupIdempotence ==
    rr.op = "reranked" =>
        \A i \in 1..Len(rr.out), j \in 1..Len(rr.out) :
            rr.out[i].page_content = rr.out[j].page_content => i = j

\* C5 witness: the same text came twice with different metadata and the
\* output holds it exactly once.
DedupWitness ==
    /\ rr.op = "reranked"
    /\ \E i \in 1..Len(rr.docs), j \in 1..Len(rr.docs) :
          /\ i < j
          /\ rr.docs[i].page_content = rr.docs[j].page_content
          /\ rr.docs[i].metadata # rr.docs[j].metadata
          /\ Cardinality({k \in 1..Len(rr.out) :
                 rr.out[k].page_content = rr.docs[i].page_content}) = 1

\* C6: the output has min(K, number of distinct texts) entries, in
\* non-increasing order of the score the relevance model gave them.
TopKContract ==
    rr.op = "reranked" =>
        /\ Len(rr.out) = Min2(rr.top_k, Cardinality(TextsOf(rr.docs)))
        /\ \A i \in 1..Len(rr.out), j \in 1..Len(rr.out) :
              i < j => rr.score[rr.out[i].page_content]
                          >= rr.score[rr.out[j].page_content]

\* C6 witness: K cuts a list of differently scored texts.
TopKWitness ==
    /\ rr.op = "reranked"
    /\ rr.top_k >= 2
    /\ rr.top_k < Cardinality(TextsOf(rr.docs))
    /\ Len(rr.out) = rr.top_k
    /\ rr.score[rr.out[1].page_content] > rr.score[rr.out[2].page_content]

-----------------------------------------------------------------------------
(* Properties of the Evidence Extractor *)

\* C7: every Section returned by _process_structured_content_raw has a text
\* of at least 10 characters after trimming, and the stored text is the
\* trimmed text.
MinimumLengthFilter ==
    ex.op = "extracted" =>
        \A k \in 1..Len(ex.items) :
            /\ Len(Strip(ex.items[k].text)) >= MinSectionLen
            /\ ex.items[k].text = Strip(ex.items[k].text)

\* C7 witness: a candidate with a segment that was dropped as too short, one
\* kept with exactly 10 characters, and whitespace trimmed off the candidate.
MinimumLengthWitness ==
    /\ ex.op = "extracted"
    /\ Len(ex.docs_info) = 1
    /\ \E k \in 1..Len(ex.items) : Len(ex.items[k].text) = MinSectionLen
    /\ LET t == ex.docs_info[1].content
       IN  /\ Len(FinalSegments(t, ReSplit(t, 0, 0))) > Len(ex.items)
           /\ IsSpace(At(t, Len(t) - 1))

-----------------------------------------------------------------------------
(* Properties of the Session Store *)

\* C10: writing N >= 1 EvidenceItems and reading the file back under the
\* field 'data' yields N items in the same order, each with the same text,
\* the same source URL and a set-equal image list.
RoundTripPersistence ==
    st.op = "read" =>
        /\ st.read.t = "arr"
        /\ Len(st.read.v) = Len(st.new_data)
        /\ \A i \in 1..Len(st.new_data) :
              /\ IsItem(st.read.v[i])
              /\ AsItem(st.read.v[i]).text = st.new_data[i].text
              /\ AsItem(st.read.v[i]).source_url = st.new_data[i].source_url
              /\ SeqRange(AsItem(st.read.v[i]).images)
                    = SeqRange(st.new_data[i].images)

\* C10 witness: two items were read back, one of them with a quote, a
\* backslash or a newline in its text and with two images.
RoundTripWitness ==
    /\ st.op = "read"
    /\ Len(st.new_data) = 2
    /\ st.read.t = "arr"
    /\ Len(st.read.v) = 2
    /\ \E i \in 1..2 :
          /\ SeqRange(st.new_data[i].text) \cap {Quote, Backslash, "\n"} # {}
          /\ Len(st.new_data[i].images) = 2

-----------------------------------------------------------------------------
(* Properties of the pipeline and its session file *)

\* the items the report generator reads from a session file
StoredItems(file) ==
    LET d == ReadDataList(file)
    IN  [i \in 1..Len(d.v) |-> AsItem(d.v[i])]

\* the step in which a call returns with a non-empty list
ReturnsItems ==
    run.pc \in Running /\ run'.pc = "done" /\ run.final_data # <<>>

\* C4, as stated: once a call has completed normally, the file of its
\* session holds exactly the list that call produced, so no item of an
\* earlier call is still in it.
ReplacementEveryInvocation ==
    run.pc = "done" =>
        StoredItems(fs[ReportDataPath(run.session_id)]) = run.final_data

\* C4, amended: a call that completes with a non-empty list leaves in the
\* file of its session exactly that list, whatever the file held before,
\* and touches no other file; every other step, a call that completes with
\* an empty list included, leaves every file as it was.  The file thus holds
\* the list of the most recent call for the session that produced items.
ReplacementByLastNonEmpty ==
    [][/\ ReturnsItems =>
            /\ StoredItems(fs'[ReportDataPath(run.session_id)]) = run.final_data
            /\ \A f \in StorePaths \ {ReportDataPath(run.session_id)} :
                  fs'[f] = fs[f]
       /\ ~ReturnsItems => fs' = fs]_vars

\* C4 witness: a call has completed with an empty list over a non-empty
\* pool, and the file of its session holds the items of an earlier call.
ReplacementWitness ==
    /\ run.pc = "done"
    /\ run.all_docs_pool # <<>>
    /\ run.final_data = <<>>
    /\ StoredItems(fs[ReportDataPath(run.session_id)]) # <<>>

\* C8: a call in which the recall step or the re-ranking step fails ends
\* with the exception, not with a textual result, and no step of it changes
\* a file; a file changes only in the step that follows re-ranking and ends
\* the call.
WriteOnlyOnCompletion ==
    [][/\ (run.pc # "failed" /\ run'.pc = "failed") =>
            /\ run.pc \in {"loaded", "recalled"}
            /\ run'.result.kind = "raised"
            /\ fs' = fs
       /\ run.pc \in {"idle", "loaded", "recalled", "failed", "done"} => fs' = fs
       /\ fs' # fs => run.pc = "reranked" /\ run'.pc = "done"]_vars

\* C8 witness: re-ranking has failed in a call for a session whose file
\* holds the items of an earlier call.
WriteOnlyOnCompletionWitness ==
    /\ run.pc = "failed"
    /\ run.result = [kind |-> "raised", step |-> "rerank"]
    /\ run.structured_items # <<>>
    /\ StoredItems(fs[ReportDataPath(run.session_id)]) # <<>>

\* C9: a call whose pool is empty after loading returns the 'no items found'
\* result in its next step, without a call to the index or to the rerank
\* model and without a change to any file.
EmptyPoolShortCircuit ==
    [][(run.pc = "loaded" /\ run.all_docs_pool = <<>>) =>
            /\ run'.pc = "done"
            /\ run'.result.kind = "output"
            /\ run'.result.text = "Batch process finished, no items found."
            /\ run'.calls = <<>>
            /\ fs' = fs]_vars

\* C9 witness: a call with a missing path and an unsupported path has
\* returned 'no items found' while the file of its session holds the items
\* of an earlier call.
EmptyPoolWitness ==
    /\ run.pc = "done"
    /\ run.file_paths = <<PathGone, PathC>>
    /\ run.all_docs_pool = <<>>
    /\ run.calls = <<>>
    /\ run.result = NoItemsFound
    /\ StoredItems(fs[ReportDataPath(run.session_id)]) # <<>>

-----------------------------------------------------------------------------
(* Properties of the loading loop *)

\* the path of file_paths a block of the pool names
PathNamed(file_name) ==
    CHOOSE path \in SeqRange(run.file_paths) \cup {<<>>} :
        (\E q \in SeqRange(run.file_paths) : Basename(q) = file_name)
            => (path # <<>> /\ Basename(path) = file_name)

\* C11: every block of the pool carries the file name of the document it
\* was cut from, and as source URL the caller's source_url when that is
\* non-empty, else the URL of the first source marker of the document when
\* there is one and it is non-empty, else the sentinel.
SourceAttributionPriority ==
    run.pc = "loaded" =>
        \A k \in 1..Len(run.all_docs_pool) :
            LET d == run.all_docs_pool[k]
                path == PathNamed(d.metadata.file_name)
            IN  /\ path \in SeqRange(run.file_paths)
                /\ Exists(path)
                /\ \E j \in 1..Len(DiskSections[path]) :
                      DiskSections[path][j] = d.page_content
                /\ d.metadata.source_url =
                      IF ~Falsy(run.source_url) THEN run.source_url
                      ELSE IF ~Falsy(SourceMarker(Disk[path]))
                           THEN SourceMarker(Disk[path])
                      ELSE <<"unknown_source">>

\* C11 witness: the caller passed a URL and a document with a marker of its
\* own was loaded under the caller's URL.
SourceAttributionWitness ==
    /\ run.pc = "loaded"
    /\ run.source_url = <<"http://p">>
    /\ run.file_paths = <<PathA, PathB>>
    /\ SourceMarker(Disk[PathA]) = <<"u">>
    /\ Len(run.all_docs_pool) = 3
    /\ \A k \in 1..3 : run.all_docs_pool[k].metadata.source_url = <<"http://p">>

\* the paths of file_paths that are on disk with an accepted extension
Remaining(file_paths) ==
    SelectSeq(file_paths,
              LAMBDA path : /\ path \in DOMAIN Disk
                            /\ path[Len(path)] \in {".md", ".markdown"})

\* the blocks of a list of documents, one after the other
RECURSIVE BlocksOf(_)
BlocksOf(paths) ==
    IF paths = <<>> THEN <<>>
    ELSE [k \in 1..Len(DiskSections[Head(paths)]) |->
             [text |-> DiskSections[Head(paths)][k], file_name |-> Basename(Head(paths))]]
         \o BlocksOf(Tail(paths))

PoolBlocks ==
    [k \in 1..Len(run.all_docs_pool) |->
        [text |-> run.all_docs_pool[k].page_content,
         file_name |-> run.all_docs_pool[k].metadata.file_name]]

Skipped(path) ==
    path \notin DOMAIN Disk \/ path[Len(path)] \notin {".md", ".markdown"}

WarnedAbout(path) ==
    \E i \in 1..Len(run.log) :
        run.log[i].level = "warning" /\ run.log[i].file_name = Basename(path)

-----------------------------------------------------------------------------
(* Properties of concurrent writers *)

\* C13: when two calls with one session identifier have both completed their
\* write, the session file holds the complete list of the one whose write
\* landed last, never a mixture or a fragment.
LastWriterWins ==
    (\A w \in Writers : wr.proc[w].pc = "closed") =>
        /\ fs[SavePath(wr.session_id)] = JsonDump(wr.proc[wr.last].new_data)
        /\ StoredItems(fs[SavePath(wr.session_id)]) = wr.proc[wr.last].new_data

-----------------------------------------------------------------------------
(* Properties of the report generator *)

\* the session file the next report call reads holds a non-empty list:
\* under 'data' of an object, or as the whole document
HoldsNonEmptyList(file) ==
    /\ file # Missing
    /\ JsonLoad(file).ok
    /\ LET raw == JsonLoad(file).val
           list == IF raw.t = "obj" /\ HasKey(raw, "data")
                   THEN Member(raw, "data") ELSE raw
       IN  list.t = "arr" /\ list.v # <<>>

\* the value the next report call reads from its session file is not empty:
\* the member 'data' of an object that has one, else the whole document
HoldsNonEmptyValue(file) ==
    /\ file # Missing
    /\ JsonLoad(file).ok
    /\ LET raw == JsonLoad(file).val
       IN  IF raw.t = "obj" /\ HasKey(raw, "data")
           THEN Member(raw, "data").v # <<>>
           ELSE raw.v # <<>>

\* a step in which a report call loads its data
ReportLoads == rp.pc \in {"idle", "done"} /\ rp' # rp

ReportSessionFile == fs[ReportDataPath(SessionId(env))]

-----------------------------------------------------------------------------
(* Properties of session scoping *)

\* the effective session identifier of a caller: the value of its
\* environment, 'default_session' when there is none
EffectiveId(c) ==
    IF scope[c].environ = Missing THEN "default_session" ELSE scope[c].environ

\* C15: two callers write, and their report calls read, the same path if and
\* only if their effective session identifiers are equal; a caller whose
\* identifier differs from the other's reads back its own list whatever the
\* other has saved, and callers with equal identifiers (both without one,
\* for instance) read the list saved last by either.
SessionScoping ==
    \A c \in Callers : \A d \in Callers \ {c} :
        LET mine == SavePath(SessionId(scope[c].environ))
            theirs == SavePath(SessionId(scope[d].environ))
        IN  /\ (mine = theirs) <=> (EffectiveId(c) = EffectiveId(d))
            /\ ReportDataPath(SessionId(scope[c].environ)) = mine
            /\ scope[c].pc = "read" =>
                  IF EffectiveId(c) # EffectiveId(d)
                  THEN scope[c].read = ScopeData(c)
                  ELSE scope[c].read \in {ScopeData(c), ScopeData(d)}
            /\ (scope[c].pc = "saved" /\ EffectiveId(c) # EffectiveId(d)) =>
                  StoredItems(fs[mine]) = ScopeData(c)

\* C15 witness: neither caller has an identifier, both have saved, and the
\* first reads back the list of the second.
SessionScopingWitness ==
    /\ \A c \in Callers : scope[c].environ = Missing
    /\ scope[1].pc = "read"
    /\ scope[2].pc = "saved"
    /\ scope[1].read = ScopeData(2)

\* the pool's blocks that were cut from the document of this path
PoolTextsOf(path) ==
    LET docs == SelectSeq(run.all_docs_pool,
                          LAMBDA d : d.metadata.file_name = Basename(path))
    IN  [k \in 1..Len(docs) |-> docs[k].page_content]

\* how many times file_paths names this path
Occurrences(path) ==
    Cardinality({i \in 1..Len(run.file_paths) : run.file_paths[i] = path})

StartsWith(t, prefix) ==
    Len(t) >= Len(prefix) /\ SubSeq(t, 1, Len(prefix)) = prefix

IntroHeader == <<"#", " ", "I", "n", "t", "r", "o">>

MaterialsHeader == <<"#", "#", " ", "M", "a", "t", "e", "r", "i", "a", "l", "s">>

\* C16: a document whose only headers are '# Intro' and '## Materials', each
\* section below 2000 characters, contributes exactly two blocks per load,
\* the first starting at '# Intro' and the second at '## Materials'; a
\* document of 3000 characters of plain text without headers contributes at
\* least two blocks per load, each of at most 2000 characters.
HeaderAndPlainScenario ==
    run.pc = "loaded" =>
        /\ \A path \in {PathIntro, PathNotes} :
              LET texts == PoolTextsOf(path)
              IN  /\ Len(texts) = 2 * Occurrences(path)
                  /\ \A k \in 1..Len(texts) :
                        StartsWith(texts[k], IF k % 2 = 1 THEN IntroHeader
                                             ELSE MaterialsHeader)
        /\ \A path \in {PathPlain, PathProse} :
              LET texts == PoolTextsOf(path)
              IN  /\ Len(texts) >= 2 * Occurrences(path)
                  /\ \A k \in 1..Len(texts) : Len(texts[k]) <= ExecMaxChars

\* C16 witness: both documents of the scenario were loaded in one run; the
\* first gave its two header blocks and the second two chunks.
HeaderAndPlainWitness ==
    /\ run.pc = "loaded"
    /\ run.file_paths = <<PathIntro, PathPlain>>
    /\ Len(run.all_docs_pool) = 4
    /\ StartsWith(run.all_docs_pool[1].page_content, IntroHeader)
    /\ StartsWith(run.all_docs_pool[2].page_content, MaterialsHeader)
    /\ Len(run.all_docs_pool[3].page_content) = ExecMaxChars
    /\ Len(run.all_docs_pool[4].page_content) = PlainLen - (ExecMaxChars - ExecOverlap)

\* the URL of the image reference ![alt](url) that starts at position p
ImageUrlAt(s, p) ==
    LET j == SetMin(ImageAltEnds(s, p))
        k == SetMin({x \in (j + 2)..(Len(s) - 1) : At(s, x) = ")"})
    IN  Slice(s, j + 2, k)

\* the URLs of all the image references of a text
ImageUrlsIn(s) ==
    {ImageUrlAt(s, p) : p \in {q \in 0..(Len(s) - 1) : HasImageAt(s, q)}}

NoDuplicate(q) == \A i, j \in 1..Len(q) : q[i] = q[j] => i = j

\* C17: the image list of every section the extractor returns has no
\* duplicate and holds exactly the URLs of the image references
\* ![alt](url) of the section's text.
ImageUniqueness ==
    ex.op = "extracted" =>
        \A k \in 1..Len(ex.items) :
            /\ NoDuplicate(ex.items[k].images)
            /\ SeqRange(ex.items[k].images) = ImageUrlsIn(ex.items[k].text)

\* C17 witness: a section with two references to one URL and a reference to
\* another has two entries.
ImageUniquenessWitness ==
    /\ ex.op = "extracted"
    /\ \E k \in 1..Len(ex.items) :
          /\ Len(FindAllImages(ex.items[k].text, 0)) = 3
          /\ Len(ex.items[k].images) = 2
          /\ SeqRange(ex.items[k].images) = {<<"u">>, <<"v">>}

\* two lists of evidence items that agree on the text and the source URL at
\* every position and on the images of every position as sets
SameEvidence(a, b) ==
    /\ Len(a) = Len(b)
    /\ \A k \in 1..Len(a) :
          /\ a[k].text = b[k].text
          /\ a[k].source_url = b[k].source_url
          /\ SeqRange(a[k].images) = SeqRange(b[k].images)

BothReturned == \A i \in Invocations : twin.result[i] # NoResult

\* C18, as stated: two calls with the same query, file_paths, file contents
\* and source_url return the same ordered evidence (image lists as sets) and
\* the same result message.
Determinism ==
    BothReturned =>
        /\ SameEvidence(twin.final_data[1], twin.final_data[2])
        /\ twin.result[1] = twin.result[2]

\* C18, amended: the two calls return the same ordered evidence (image
\* lists as sets); they return the same result message when they also ran
\* under the same session identifier, whose path the message names.
DeterminismInSession ==
    BothReturned =>
        /\ SameEvidence(twin.final_data[1], twin.final_data[2])
        /\ twin.session_id[1] = twin.session_id[2]
              => twin.result[1] = twin.result[2]
        /\ twin.final_data[1] = <<>> => twin.result[1] = twin.result[2]

\* C18 witness: two calls in one session whose image lists came out in
\* different orders, with the same texts, sources and message.
DeterminismWitness ==
    /\ BothReturned
    /\ twin.session_id[1] = twin.session_id[2]
    /\ twin.final_data[1] # twin.final_data[2]
    /\ twin.final_data[1] # <<>>
    /\ twin.result[1] = twin.result[2]

\* the first of the sections handed to the Reranker that has this text
FirstWithText(text) ==
    run.structured_items[
        SetMin({k \in 1..Len(run.structured_items) :
                   run.structured_items[k].text = text})]

\* C19: the evidence item kept for a text carries the source URL and the
\* image list of the first section with that text in the Reranker's input.
FirstOccurrenceWins ==
    run.pc \in {"reranked", "done"} =>
        \A k \in 1..Len(run.final_data) :
            LET first == FirstWithText(run.final_data[k].text)
            IN  /\ run.final_data[k].source_url = first.source_url
                /\ run.final_data[k].images = first.images

\* s is the part of t that starts at position q
OccursAt(s, t, q) == q + Len(s) <= Len(t) /\ Slice(t, q, q + Len(s)) = s

\* the separators re.split has cut t at, as ranges of t
SeparatorsOf(t) ==
    LET primary == ReSplit(t, 0, 0)
    IN  {[lo |-> primary[k].hi, hi |-> primary[k + 1].lo] :
            k \in 1..(Len(primary) - 1)}

SectionTexts == {ex.items[k].text : k \in 1..Len(ex.items)}

\* every section text is a contiguous part of the text of a candidate
SectionsVerbatim ==
    ex.op = "extracted" =>
        \A s \in SectionTexts :
            \E c \in SeqRange(ex.docs_info) :
                \E q \in 0..Len(c.content) : OccursAt(s, c.content, q)

\* a section text that starts right behind the separator g of t
FollowsSeparator(s, t, g) ==
    \E q \in g.hi..Len(t) :
        /\ OccursAt(s, t, q)
        /\ \A i \in g.hi..(q - 1) : IsSpace(At(t, i))

\* the marker of the separator g of t, '#'s or a rule, lies inside a section text
MarkerRetained(t, g) ==
    LET mark == StripRange(t, g.lo, g.hi)
    IN  \E s \in SectionTexts :
            \E q \in 0..mark.lo :
                OccursAt(s, t, q) /\ mark.hi <= q + Len(s)

\* C20: every section text occurs verbatim as a contiguous part of its
\* candidate's text, and the header markers and horizontal-rule lines at
\* which a candidate is split are retained in the section texts: where a
\* section starts right behind such a separator, a section text holds the
\* separator's marker.
RawModePreservation ==
    /\ SectionsVerbatim
    /\ ex.op = "extracted" =>
          \A c \in SeqRange(ex.docs_info) :
              \A g \in SeparatorsOf(c.content) :
                  (\E s \in SectionTexts : FollowsSeparator(s, c.content, g))
                      => MarkerRetained(c.content, g)

-----------------------------------------------------------------------------
(* Properties of the length-based windows *)

\* the trimmed text _chunk_text works on
Trimmed == StripRange(seg.content, 0, Len(seg.content))

\* the distance between the starts of two windows
Step == seg.max_chars - seg.overlap

\* the index of the last window: the first whose end reaches the end of the
\* trimmed text
LastWindow ==
    LET L == Trimmed.hi - Trimmed.lo
    IN  SetMin({k \in 0..L : k * Step + seg.max_chars >= L})

\* window k of the trimmed text, as a range of the content
Window(k) ==
    [lo |-> Trimmed.lo + k * Step,
     hi |-> Min2(Trimmed.hi, Trimmed.lo + k * Step + seg.max_chars)]

OnlyWhitespace(g) == \A i \in g.lo..(g.hi - 1) : IsSpace(At(seg.content, i))

Chunked == seg.op = "chunk" /\ Trimmed.hi - Trimmed.lo > seg.max_chars

\* C21: for a text of trimmed length L > max_chars, window k of _chunk_text
\* starts k * (max_chars - overlap) into the trimmed text and is max_chars
\* long, the last one ending with the text; adjacent windows share overlap
\* characters; the windows cover the trimmed text; the returned chunks are
\* the trimmed windows, in order, without the windows that are only
\* whitespace.
WindowPositions ==
    Chunked =>
        LET kept == SelectSeq([k \in 1..(LastWindow + 1) |-> Window(k - 1)],
                              LAMBDA g : ~OnlyWhitespace(g))
        IN  /\ Len(seg.ranges) = Len(kept)
            /\ \A n \in 1..Len(kept) :
                  /\ seg.ranges[n].wlo = kept[n].lo
                  /\ seg.ranges[n].whi = kept[n].hi
                  /\ seg.blocks[n] = Strip(Slice(seg.content, kept[n].lo, kept[n].hi))
            /\ \A k \in 0..(LastWindow - 1) :
                  /\ Window(k).hi - Window(k).lo = seg.max_chars
                  /\ Window(k).hi - Window(k + 1).lo = seg.overlap
            /\ Window(LastWindow).hi = Trimmed.hi
            /\ Window(0).lo = Trimmed.lo

\* C21 witness: three windows with a shared character between neighbours,
\* the middle one only whitespace and dropped.
WindowPositionsWitness ==
    /\ Chunked
    /\ seg.overlap = 1
    /\ LastWindow = 2
    /\ OnlyWhitespace(Window(1))
    /\ Len(seg.blocks) = 2

-----------------------------------------------------------------------------
(* Properties of the depth filter *)

Matches == FindIter(seg.content, 0)

InRange(m) == seg.min_level <= m.level /\ m.level <= seg.max_level

InRangeStarts == {Matches[i].start : i \in {j \in 1..Len(Matches) : InRange(Matches[j])}}

AllStarts == {Matches[i].start : i \in 1..Len(Matches)}

\* the first position in S behind p, or the end of the document
NextIn(S, p) ==
    IF {q \in S : q > p} = {} THEN Len(seg.content) ELSE SetMin({q \in S : q > p})

\* the header line and the text under header i, up to the next header
UnderHeader(i) == Matches[i].start..(NextIn(AllStarts, Matches[i].start) - 1)

\* blocks start only at in-range headers and run to the next in-range header
\* or to the end of the document
BlocksAtInRangeHeaders ==
    /\ Len(seg.sections) = Cardinality(InRangeStarts)
    /\ \A k \in 1..Len(seg.sections) :
          /\ seg.sections[k].wlo \in InRangeStarts
          /\ seg.sections[k].whi = NextIn(InRangeStarts, seg.sections[k].wlo)
          /\ seg.sections[k].lo = seg.sections[k].wlo

\* C22: when a document has a header of a depth in [min_level, max_level],
\* blocks start only at in-range headers, each block runs to the next
\* in-range header or to the end of the document, and the header line and
\* the text of every out-of-range header lie in a returned block.
DepthFiltering ==
    (seg.op = "split" /\ InRangeStarts # {}) =>
        /\ BlocksAtInRangeHeaders
        /\ \A i \in 1..Len(Matches) :
              ~InRange(Matches[i]) =>
                  (UnderHeader(i) \cap NonSpaceAt(seg.content))
                      \subseteq Covered(seg.ranges)

\* the same for the out-of-range headers behind the first in-range header
DepthFilteringBehindFirst ==
    (seg.op = "split" /\ InRangeStarts # {}) =>
        /\ BlocksAtInRangeHeaders
        /\ \A i \in 1..Len(Matches) :
              (~InRange(Matches[i]) /\ Matches[i].start > SetMin(InRangeStarts)) =>
                  (UnderHeader(i) \cap NonSpaceAt(seg.content))
                      \subseteq Covered(seg.ranges)

NoneInRange == seg.op = "split" /\ Matches # <<>> /\ InRangeStarts = {}

\* C23: when a document has headers but none of a depth in
\* [min_level, max_level], every header is a split point: before the
\* length-based chunking there is one block per header, from that header to
\* the next header of any depth or to the end of the document, and the
\* result is not empty.
DepthFilterFallback ==
    NoneInRange =>
        /\ Len(seg.sections) = Len(Matches)
        /\ \A k \in 1..Len(Matches) :
              /\ seg.sections[k].wlo = Matches[k].start
              /\ seg.sections[k].lo = Matches[k].start
              /\ seg.sections[k].whi = NextIn(AllStarts, Matches[k].start)
        /\ seg.blocks # <<>>
        /\ \A k \in 1..Len(Matches) :
              (UnderHeader(k) \cap NonSpaceAt(seg.content)) \subseteq Covered(seg.ranges)

\* C23 witness: three headers of depths 2, 3 and 2 under min_level =
\* max_level = 1 gave three blocks.
DepthFilterFallbackWitness ==
    /\ NoneInRange
    /\ seg.min_level = 1
    /\ seg.max_level = 1
    /\ Len(Matches) = 3
    /\ Matches[2].level = 3
    /\ Len(seg.sections) = 3

-----------------------------------------------------------------------------
(* Properties of a call whose candidates give no section *)

NoSections == run.all_docs_pool # <<>> /\ run.structured_items = <<>>

\* C24: when recall returned candidates and the extractor gave no section,
\* the re-ranking step returns an empty list without a call of the
\* relevance model, the call then returns the 'no items found' result of
\* an empty pool, and no step of it changes a file.
NoSectionsShortCircuit ==
    [][/\ (run.pc = "recalled" /\ NoSections) =>
            /\ run'.pc = "reranked"
            /\ run'.final_data = <<>>
            /\ run'.calls = run.calls
            /\ fs' = fs
       /\ (run.pc = "reranked" /\ NoSections) =>
            /\ run'.pc = "done"
            /\ run'.result = NoItemsFound
            /\ run'.calls = <<"from_documents", "similarity_search">>
            /\ fs' = fs]_vars

\* C24 witness: a call over a document whose only section is too short has
\* returned, and the file of its session still holds an earlier call's
\* items.
NoSectionsWitness ==
    /\ run.pc = "done"
    /\ run.file_paths = <<PathS>>
    /\ NoSections
    /\ run.calls = <<"from_documents", "similarity_search">>
    /\ run.result = NoItemsFound
    /\ StoredItems(fs[ReportDataPath(run.session_id)]) # <<>>

-----------------------------------------------------------------------------
(* Properties of the order of equally scored entries *)

\* the place of a text in the deduplicated list: that of its first document
FirstPosition(text) ==
    SetMin({i \in 1..Len(rr.docs) : rr.docs[i].page_content = text})

OutTexts == {rr.out[k].page_content : k \in 1..Len(rr.out)}

\* C25: entries of equal score come out in the order of their places in the
\* deduplicated input, and of equally scored texts at the top-K cut the
\* earlier ones are kept.
TieOrder ==
    rr.op = "reranked" =>
        /\ \A i \in 1..Len(rr.out), j \in 1..Len(rr.out) :
              (i < j /\ rr.score[rr.out[i].page_content]
                           = rr.score[rr.out[j].page_content])
              => FirstPosition(rr.out[i].page_content)
                    < FirstPosition(rr.out[j].page_content)
        /\ \A i \in 1..Len(rr.out) :
              \A t \in TextsOf(rr.docs) \ OutTexts :
                  rr.score[t] = rr.score[rr.out[i].page_content]
                  => FirstPosition(rr.out[i].page_content) < FirstPosition(t)

\* C25 witness: three texts of one score, the input not in the order of
\* their names, cut to two.
TieOrderWitness ==
    /\ rr.op = "reranked"
    /\ Len(rr.docs) = 3
    /\ rr.docs[1].page_content = "t2"
    /\ rr.docs[2].page_content = "t3"
    /\ rr.docs[3].page_content = "t1"
    /\ \A t \in RerankTexts : rr.score[t] = 1
    /\ rr.top_k = 2
    /\ rr.out = <<rr.docs[1], rr.docs[2]>>

-----------------------------------------------------------------------------
(* Properties of the split of long segments at blank lines *)

HasBlankLine(s) == \E i \in 1..(Len(s) - 1) : s[i] = "\n" /\ s[i + 1] = "\n"

\* the primary segments of the candidates, each with its trimmed text
PrimarySegments ==
    UNION {LET t == ex.docs_info[n].content
               primary == ReSplit(t, 0, 0)
           IN  {[len |-> primary[k].hi - primary[k].lo,
                 text |-> Strip(Slice(t, primary[k].lo, primary[k].hi))] :
                    k \in 1..Len(primary)} : n \in 1..Len(ex.docs_info)}

\* C26: a primary segment of at most 800 characters is never split at blank
\* lines (it is a Section as a whole when its trimmed text has 10
\* characters); a longer one is split at every blank line, so a Section
\* that holds a blank line is a whole primary segment of at most 800
\* characters and no Section longer than 800 characters holds one; and no
\* Section is longer than the block bound of 2000 characters that its
\* candidate meets.
SplitAtThreshold ==
    ex.op = "extracted" =>
        /\ \A g \in PrimarySegments :
              (g.len <= SplitThreshold /\ Len(g.text) >= MinSectionLen)
                  => g.text \in SectionTexts
        /\ \A s \in SectionTexts :
              /\ HasBlankLine(s) =>
                    \E g \in PrimarySegments : g.len <= SplitThreshold /\ g.text = s
              /\ Len(s) > SplitThreshold => ~HasBlankLine(s)
              /\ (\A n \in 1..Len(ex.docs_info) :
                      Len(ex.docs_info[n].content) <= ExecMaxChars)
                    => Len(s) <= ExecMaxChars

\* C26 witness: a candidate of 802 characters with a blank line in the
\* middle gave two Sections of 400 characters.
SplitAtThresholdWitness ==
    /\ ex.op = "extracted"
    /\ Len(ex.docs_info) = 1
    /\ Len(ex.docs_info[1].content) = SplitThreshold + 2
    /\ HasBlankLine(ex.docs_info[1].content)
    /\ Len(ex.items) = 2
    /\ Len(ex.items[1].text) = SplitThreshold \div 2
    /\ Len(ex.items[2].text) = SplitThreshold \div 2

-----------------------------------------------------------------------------
(* Properties of the pool and the index of one call *)

\* the blocks of the documents this call names in file_paths
BlocksOfThisCall ==
    UNION {SeqRange(DiskSections[path]) :
              path \in {p \in SeqRange(run.file_paths) : ~Skipped(p)}}

\* a text that is a part of a block of a document this call names
FromThisCall(text) ==
    \E b \in BlocksOfThisCall : \E q \in 0..Len(b) : OccursAt(text, b, q)

\* C27: the blocks of the pool, the sections and the evidence items of a
\* call come from the documents named in its own file_paths, whatever the
\* calls before it loaded; there are at most 50 evidence items.
IndexFreshness ==
    run.pc \in {"loaded", "recalled", "reranked", "done"} =>
        /\ \A k \in 1..Len(run.all_docs_pool) :
              run.all_docs_pool[k].page_content \in BlocksOfThisCall
        /\ \A k \in 1..Len(run.structured_items) :
              FromThisCall(run.structured_items[k].text)
        /\ \A k \in 1..Len(run.final_data) : FromThisCall(run.final_data[k].text)
        /\ Len(run.final_data) <= RerankTopK

\* C27 witness: a call over a.md alone has returned its items while the
\* file of another session holds an item of an earlier call that is from
\* none of this call's documents.
IndexFreshnessWitness ==
    /\ run.pc = "done"
    /\ run.file_paths = <<PathA>>
    /\ run.final_data # <<>>
    /\ \E f \in StorePaths :
          LET items == StoredItems(fs[f])
          IN  \E k \in 1..Len(items) : ~FromThisCall(items[k].text)

-----------------------------------------------------------------------------
(* Properties of the while loop of _chunk_text *)

\* each window starts behind the start of the one before it and ends behind
\* its end, and there are no more windows than characters
WindowsAdvance ==
    seg.op = "chunking" =>
        /\ \A k \in 1..(Len(seg.windows) - 1) :
              /\ seg.windows[k + 1].lo > seg.windows[k].lo
              /\ seg.windows[k + 1].hi > seg.windows[k].hi
        /\ Len(seg.windows) <= seg.text.hi - seg.text.lo

\* the call has returned what _chunk_text returns
ChunkReturned ==
    /\ seg.pc = "returned"
    /\ seg.ranges = ChunkText(seg.content, 0, Len(seg.content),
                              seg.max_chars, seg.overlap)

\* C28: for max_chars >= 1 and 0 <= overlap < max_chars every call of
\* _chunk_text returns; each window starts strictly behind the start of the
\* window before it and ends strictly behind its end, and there are at most
\* as many windows as the text has characters.
ChunkTermination == []WindowsAdvance /\ <>ChunkReturned

\* C28 witness: a call has returned after four windows that share a
\* character with their neighbours.
ChunkTerminationWitness ==
    /\ seg.op = "chunking"
    /\ seg.pc = "returned"
    /\ seg.overlap = 1
    /\ seg.max_chars = 2
    /\ Len(seg.windows) = 4

-----------------------------------------------------------------------------
(* Properties of the order of the blocks *)

\* the ranges of the document the header-bounded blocks are cut from; the
\* whole document when it has no header
SectionWindows ==
    IF seg.sections # <<>>
    THEN {[lo |-> seg.sections[k].wlo, hi |-> seg.sections[k].whi] :
             k \in 1..Len(seg.sections)}
    ELSE {[lo |-> 0, hi |-> Len(seg.content)]}

\* returned blocks i and j are cut from the same header-bounded block
SameSection(i, j) ==
    \E w \in SectionWindows :
        /\ w.lo <= seg.ranges[i].wlo /\ seg.ranges[i].whi <= w.hi
        /\ w.lo <= seg.ranges[j].wlo /\ seg.ranges[j].whi <= w.hi

CharsOf(k) == seg.ranges[k].lo..(seg.ranges[k].hi - 1)

\* C29: the header-bounded blocks cover pairwise disjoint ranges of the
\* document, one behind the other; the returned blocks are in document
\* order; and a character that is in two returned blocks lies in the
\* overlap of two consecutive length-based chunks of one header-bounded
\* block.
BlockOrder ==
    seg.op = "split" =>
        /\ \A k \in 1..(Len(seg.sections) - 1) :
              /\ seg.sections[k].wlo < seg.sections[k].whi
              /\ seg.sections[k].whi <= seg.sections[k + 1].wlo
        /\ \A k \in 1..(Len(seg.ranges) - 1) :
              /\ seg.ranges[k].lo <= seg.ranges[k + 1].lo
              /\ seg.ranges[k].hi <= seg.ranges[k + 1].hi
        /\ \A i \in 1..Len(seg.ranges), j \in 1..Len(seg.ranges) :
              i < j =>
                \A p \in CharsOf(i) \cap CharsOf(j) :
                    /\ SameSection(i, j)
                    /\ SameSection(i, i + 1)
                    /\ p \in CharsOf(i + 1)
                    /\ seg.ranges[i + 1].wlo <= p
                    /\ p < seg.ranges[i].whi
                    /\ seg.ranges[i].whi - seg.ranges[i + 1].wlo = seg.overlap

\* C29 witness: two header-bounded blocks, each cut into chunks, with a
\* character shared by two chunks of the second one and none shared across
\* the two.
BlockOrderWitness ==
    /\ seg.op = "split"
    /\ Len(seg.sections) = 2
    /\ seg.overlap >= 1
    /\ \E i \in 1..(Len(seg.ranges) - 1) :
          /\ seg.ranges[i].wlo >= seg.sections[2].wlo
          /\ CharsOf(i) \cap CharsOf(i + 1) # {}
    /\ \E i \in 1..(Len(seg.ranges) - 1) :
          /\ seg.ranges[i].whi <= seg.sections[1].whi
          /\ seg.ranges[i + 1].wlo >= seg.sections[2].wlo

-----------------------------------------------------------------------------
(* Properties of the user-context store *)

\* the last command ended with a ToolError
Rejected(u) == u.error

\* the last command was `command` and returned a ToolResult
Succeeded(u, command) == u.command = command /\ ~u.error

\* the keys whose stored value the step changed
ChangedKeys(before, after) ==
    {k \in DOMAIN before \cap DOMAIN after : before[k] # after[k]}

\* what one step of the tool does to the stored context, by the command it
\* ran, the parameters supplied and the way it ended
UserCommandStep ==
    /\ (uc'.command = "update" /\ IsEmptyContext(uc.context)) => Rejected(uc')
    /\ (uc'.command = "set" /\ "design_type" \notin uc'.supplied)
          => Rejected(uc')
    /\ Rejected(uc') => uc'.context = uc.context
    /\ Succeeded(uc', "update") =>
          /\ DOMAIN uc'.context = DOMAIN uc.context
          /\ ChangedKeys(uc.context, uc'.context) \subseteq uc'.supplied
    /\ IsEmptyContext(uc'.context) <=>
          \/ Succeeded(uc', "clear")
          \/ IsEmptyContext(uc.context) /\ ~Succeeded(uc', "set")

\* C30: in any sequence of commands on UserContextTool, an update is
\* rejected whenever the stored context is empty, that is from the start or
\* a clear until the next successful set; a set without a design_type is
\* rejected; a rejected command leaves the stored context as it was; and a
\* successful update changes only the fields supplied with a non-empty
\* value.
RejectedCommandsKeepContext == [][UserCommandStep]_vars

\* a set that supplies a style but no design_type was rejected on a stored
\* context, and the stored style is still the one of the earlier set
RejectedCommandsWitness ==
    /\ uc.op = "user_context"
    /\ uc.command = "set"
    /\ Rejected(uc)
    /\ uc.supplied = {"style_preference"}
    /\ ~IsEmptyContext(uc.context)
    /\ uc.context["style_preference"] = NotSet
    /\ uc.context["design_type"] = "b"

====
